---- MODULE Spec2Model ----
(***************************************************************************)
(* Verification model of the Pong simulation core (HoangTran0410/Pong).    *)
(*                                                                         *)
(* The repository holds several revisions of the same subsystems.  The     *)
(* variable rev names the revision a behaviour runs:                       *)
(*   "modular"  core/Game.js + systems/CollisionSystem.js + BasePowerup    *)
(*   "src"      systems/PowerupSystem.js + entities/Powerup.js (Powerup)   *)
(*   "part_000" PowerupSystem with hazard timers and sweeps                *)
(*   "part_003" PowerupSystem with sweeps only                             *)
(*   "part_012" PowerupManager of js/game.js                               *)
(*   "part_011" Paddle with checkCollision (shield section)                *)
(*   "physics"  systems/PhysicsSystem.js, "pair" PortalPair (portals)      *)
(* Geometry (which ball overlaps which powerup) and the wall clock are     *)
(* inputs drawn from small sets.                                           *)
(***************************************************************************)
EXTENDS Integers, Sequences, FiniteSets, TLC

\* ------------------------------------------------------------------ bounds
MaxBalls == 2
MaxSpawn == 3
MaxTime == 12000
MaxApply == 2
MaxResets == 1
MaxTicks == 5
MaxHoles == 2
MaxGravTicks == 3
MaxBallNo == 2
MaxPairs == 2
MaxPos == 3
MaxClock == 1560
MaxLifeClock == 11000
MaxCoord == 8
MaxListeners == 3
MaxPublishes == 2
MaxSpawned == 4
MaxPlace == 2
BallRadius == 1

\* ------------------------------------------------------- program constants
MAX_POWERUPS_ON_SCREEN == 3
COLLECTION_COOLDOWN == 100
DELTA_TIME == 16
EFFECT_DURATION == 8000
WALL_LIFETIME == 5000
PORTAL_LIFETIME == 10000
BLACKHOLE_LIFETIME == 15000
\* Speeds are in hundredths of a pixel per frame, multipliers in per cent.
BALL_SPEED == 500
MAX_BALL_SPEED == 1000
SPEED_INCREMENT == 10
SPEED_UP == 130
SPEED_DOWN == 70
BALL_SIZE == 10
BLACKHOLE_RADIUS == 30
ATTRACTION_RADIUS == 150
ATTRACTION_FORCE == 20
PORTAL_COOLDOWN == 500
CLOCK_START == 1000
MAX_SHIELD_REFLECTIONS == 1
MAX_ATTEMPTS == 50

VARIABLES
  rev,      \* revision of the subsystems this behaviour runs
  pw,       \* powerup id -> [st, collected, expired, aged, cooldown]
  field,    \* the on-field powerup list (PowerupSystem.powerups / gameObjects)
  nballs,   \* number of balls in play (balls are 1..nballs)
  sig,      \* powerup id -> "powerup:collected" signals of the last collision pass
  ovl,      \* powerup id -> balls overlapping it at the start of the last pass
  calls,    \* powerup id -> return values of its collect() calls, in order
  now,      \* Date.now(), in ms
  inFrame,  \* TRUE from a frame's PowerupSystem.update until a reset
  gen,      \* number of resets so far
  registry, \* activeEffects entries (of every manager object, field mgr)
  timers,   \* pending setTimeout callbacks
  acts,     \* log of applyTimedEffect calls: [type, target, t, gen, removed]
  napply,   \* number of applyPowerupEffect calls so far
  balls,    \* ids of the balls in play
  beff,     \* ball id -> keys of Ball.effects
  peff,     \* paddle side -> keys of Paddle.effects
  shield,   \* paddle side -> Paddle.hasShield
  hazards,  \* hazard kind -> the current manager's array of that kind
  justReset, \* TRUE in the state a reset leaves
  ball,     \* the ball under observation
  tick,     \* number of Game.update() calls so far
  goals,    \* "ball:score" signals handled by Game (leftScore + rightScore)
  portalPairs, \* the portal pairs: positions, start times, active flags, list membership
  pball,    \* the ball among the portals: position, portalCooldown
  clk,      \* Date.now() of the portal scenario, in ms
  plast,    \* what the last tick's portal step saw and did
  wb,       \* the ball near a wall: x, y, dx, dy
  wall,     \* the wall: x, y, width, height
  wlast,    \* the ball as the last wall collision found it
  pad,      \* the shielded paddle: side, hasShield, shieldReflections
  sgrant,   \* balls reflected by the shield since it was last granted
  slast,    \* the last ball that reached the paddle and what the paddle step did
  events,   \* EventBus.events for one signal: whether it has an entry, its listeners
  nextListener, \* the id the next subscription gets
  delivery, \* the publish in progress or last finished: its copy, calls, outcome
  spawned,  \* powerup id -> the powerup object's state: live, collected, expired
  placedAt, \* powerup id -> the position its search ended on
  sysPowerups, \* PowerupSystem.powerups, as ids
  gamePowerups, \* the powerups among Game.gameObjects, as ids
  spawnLast, \* whether the last tick spawned, and the on-field count it found
  search,   \* the position search of spawnPowerup: state, attempts, candidate, overlaps
  holes,    \* PowerupSystem.blackholes: each hole's id, gameObjects membership, active flag
  hlast,    \* what the last tick's blackholes saw of the ball and did to it
  bsize,    \* Ball.radius, in per cent of baseRadius
  paddles,  \* paddle side -> Paddle.effects (keys) and currentHeight in per cent of baseHeight
  pup, \* the powerup under observation: whether it is on the field, its type and config
  world, \* what a collection can change: scores, hazards, shields, effects, registry
  ulast, \* the last creation or activation: its type, its result, the world before it
  enabled,  \* powerupSettings.enabledPowerups
  powerupsEnabled, \* powerupSettings.powerupsEnabled
  ents,     \* the live entity collections: balls among gameObjects, PowerupSystem.blackholes, the holes among gameObjects
  changes,  \* the changes the last tick made to them, each with the emit() nesting it ran at
  pnow,     \* Date.now() at the last tick of the paddle scenario, in ms
  lastHitBy, \* Ball.lastHitBy
  pfx,      \* PowerupSystem.activeEffects: type, paddleSide, startTime
  pacts,    \* the paddle effects applied so far: type, side, time, the heights before
  ai,       \* an AI paddle: position, height, effects, aiVelocity, aiReactionDelay, and the position before the last update
  mw,       \* a moving wall: position, size, base position, movementDirection, and the updates it has had
  loop,     \* the tick loop: isRunning, isPaused, the queued requestAnimationFrame callbacks, the updates of the last frame, counters
  tfx,      \* timed effects in one game: activeEffects entries with their age, the effects on each ball and paddle, the balls in play, counters
  iball,    \* a ball in the collision pass: the ball, whether it is past a goal line, what it took part in in the last tick and whether it was flagged by then
  scoreboard, \* Game.leftScore and Game.rightScore, and the last change: its kind, side and the scores before it
  obus      \* a bus with once() handlers: the listeners of one signal, which of them came from once(), the emit() calls in progress, the calls each callback has had

collectVars == <<pw, field, nballs, sig, ovl, calls>>

ballVars == <<ball, tick, goals>>

portalVars == <<portalPairs, pball, clk, plast>>

wallVars == <<wb, wall, wlast>>

shieldVars == <<pad, sgrant, slast>>

busVars == <<events, nextListener, delivery>>

spawnVars == <<spawned, placedAt, sysPowerups, gamePowerups, spawnLast, search>>

\* The variables of the tick-level sections.
holeVars == <<holes, hlast>>

multVars == <<bsize, paddles>>

typeVars == <<pup, world, ulast, enabled, powerupsEnabled>>

entVars == <<ents, changes>>

sideVars == <<pnow, lastHitBy, pfx, pacts>>

midVars == <<holeVars, multVars, typeVars, entVars, sideVars>>

\* The variables of the paddle, loop and score sections.
lateVars == <<ai, mw, loop, tfx, iball, scoreboard, obus>>

moreVars == <<midVars, lateVars>>

\* The variables of the later sections.
extVars == <<portalVars, wallVars, shieldVars, busVars, spawnVars, moreVars>>

effectVars == <<now, inFrame, gen, registry, timers, acts, napply, balls, beff, peff, shield, hazards, justReset>>

\* The variables of the sections before the tick-level ones.
coreVars == <<rev, collectVars, effectVars, portalVars, wallVars, shieldVars, busVars, spawnVars>>

baseVars == <<coreVars, lateVars>>

notLateVars == <<coreVars, ballVars, midVars>>

notAiVars == <<notLateVars, mw, loop, tfx, iball, scoreboard, obus>>

notMwVars == <<notLateVars, ai, loop, tfx, iball, scoreboard, obus>>

notLoopVars == <<notLateVars, ai, mw, tfx, iball, scoreboard, obus>>

notFxVars == <<notLateVars, ai, mw, loop, iball, scoreboard, obus>>

notIballVars == <<notLateVars, ai, mw, loop, tfx, scoreboard, obus>>

notScoreVars == <<notLateVars, ai, mw, loop, tfx, iball, obus>>

notObusVars == <<notLateVars, ai, mw, loop, tfx, iball, scoreboard>>

notPortalVars == <<rev, collectVars, effectVars, ballVars, wallVars, shieldVars, busVars, spawnVars, moreVars>>

notWallVars == <<rev, collectVars, effectVars, ballVars, portalVars, shieldVars, busVars, spawnVars, moreVars>>

notShieldVars == <<rev, collectVars, effectVars, ballVars, portalVars, wallVars, busVars, spawnVars, moreVars>>

notBusVars == <<rev, collectVars, effectVars, ballVars, portalVars, wallVars, shieldVars, spawnVars, moreVars>>

notSpawnVars == <<rev, collectVars, effectVars, ballVars, portalVars, wallVars, shieldVars, busVars, moreVars>>

PowId == 1..MaxSpawn

CollectRevs == {"modular", "src", "part_003"}

\* ------------------------------------------------------------ JS helpers
\* JavaScript truthiness of the values collect() can return.
Truthy(v) == v = "true"

SeqRemoveAt(s, i) ==
  IF i < 1 \/ i > Len(s) THEN s
  ELSE SubSeq(s, 1, i - 1) \o SubSeq(s, i + 1, Len(s))

RECURSIVE SeqFilter(_, _)
SeqFilter(s, keep) ==
  IF s = <<>> THEN <<>>
  ELSE (IF Head(s) \in keep THEN <<Head(s)>> ELSE <<>>) \o SeqFilter(Tail(s), keep)

SeqToSet(s) == {s[i] : i \in 1..Len(s)}

\* --------------------------------------------------------------- powerups
NoPowerup == [st |-> "none", collected |-> FALSE, expired |-> FALSE,
              aged |-> FALSE, cooldown |-> 0]

\* Powerup / BasePowerup constructor: collected = false, expired = false,
\* collectionCooldown = 0.
NewPowerup == [st |-> "field", collected |-> FALSE, expired |-> FALSE,
               aged |-> FALSE, cooldown |-> 0]

\* BasePowerup.collect(): test-and-set guarded by collected and the cooldown.
BasePowerup_collect(p) ==
  IF p.collected \/ p.cooldown > 0
    THEN [ret |-> "false", p |-> p]
    ELSE [ret |-> "true",
          p |-> [p EXCEPT !.collected = TRUE, !.cooldown = COLLECTION_COOLDOWN]]

\* Powerup.collect(): sets the flag, has no return statement.
Powerup_collect(p) ==
  [ret |-> "undefined", p |-> [p EXCEPT !.collected = TRUE]]

\* The collect() of the powerup class the revision instantiates.
collect(r, p) ==
  IF r = "modular" THEN BasePowerup_collect(p) ELSE Powerup_collect(p)

\* Powerup.checkCollision(ball): false once collected, else the distance test
\* (the distance test is the input relation ov).
Powerup_checkCollision(p, b, id, ov) == ~p.collected /\ <<b, id>> \in ov

\* BasePowerup.update(): cooldown countdown, lifetime expiry.
BasePowerup_update(p) ==
  [p EXCEPT !.cooldown = IF p.cooldown > 0 THEN p.cooldown - DELTA_TIME ELSE p.cooldown,
            !.expired = p.expired \/ p.aged]

\* Powerup.update(): lifetime expiry.
Powerup_update(p) == [p EXCEPT !.expired = p.expired \/ p.aged]

\* BasePowerup.shouldRemove() / Powerup.shouldDestroy().
shouldRemove(p) == p.collected \/ p.expired

\* ---------------------------------------------------- collision passes
Balls == 1..nballs

\* CollisionSystem.detectCollisions (ball-powerup part): ball-major list of the
\* pairs whose powerup is neither collected nor expired and overlaps the ball.
RECURSIVE PowerupPairsOfBall(_, _, _, _)
PowerupPairsOfBall(b, lst, P, ov) ==
  IF lst = <<>> THEN <<>>
  ELSE (IF ~P[Head(lst)].collected /\ ~P[Head(lst)].expired /\ <<b, Head(lst)>> \in ov
          THEN << <<b, Head(lst)>> >> ELSE <<>>)
       \o PowerupPairsOfBall(b, Tail(lst), P, ov)

RECURSIVE detectCollisions(_, _, _, _, _)
detectCollisions(b, n, lst, P, ov) ==
  IF b > n THEN <<>>
  ELSE PowerupPairsOfBall(b, lst, P, ov) \o detectCollisions(b + 1, n, lst, P, ov)

\* CollisionSystem.resolveBallPowerupCollision: publish "powerup:collected"
\* iff collect() is truthy.  acc = [P, S (signals), C (collect() returns)].
resolveBallPowerupCollision(r, acc, pair) ==
  LET id  == pair[2]
      res == collect(r, acc.P[id])
  IN [P |-> [acc.P EXCEPT ![id] = res.p],
      S |-> IF Truthy(res.ret) THEN [acc.S EXCEPT ![id] = @ + 1] ELSE acc.S,
      C |-> [acc.C EXCEPT ![id] = Append(@, res.ret)]]

\* CollisionSystem.resolveCollisions: the detected pairs, in order.
RECURSIVE resolveCollisions(_, _, _)
resolveCollisions(r, acc, pairs) ==
  IF pairs = <<>> THEN acc
  ELSE resolveCollisions(r, resolveBallPowerupCollision(r, acc, Head(pairs)), Tail(pairs))

\* part_003 PowerupSystem.checkCollisions, inner loop over the balls of one
\* powerup: checkCollision, then emit only if collect() is truthy, then break.
RECURSIVE checkBalls003(_, _, _, _, _, _)
checkBalls003(r, acc, id, b, n, ov) ==
  IF b > n THEN acc
  ELSE IF Powerup_checkCollision(acc.P[id], b, id, ov)
    THEN LET res == collect(r, acc.P[id])
             nxt == [P |-> [acc.P EXCEPT ![id] = res.p],
                     S |-> IF Truthy(res.ret) THEN [acc.S EXCEPT ![id] = @ + 1] ELSE acc.S,
                     C |-> [acc.C EXCEPT ![id] = Append(@, res.ret)],
                     X |-> IF Truthy(res.ret) THEN Append(acc.X, id) ELSE acc.X]
         IN IF Truthy(res.ret) THEN nxt ELSE checkBalls003(r, nxt, id, b + 1, n, ov)
    ELSE checkBalls003(r, acc, id, b + 1, n, ov)

\* systems/PowerupSystem.js checkCollisions, inner balls.forEach: collect() is
\* called and the signal published for every ball checkCollision accepts.
RECURSIVE checkBallsSrc(_, _, _, _, _, _)
checkBallsSrc(r, acc, id, b, n, ov) ==
  IF b > n THEN acc
  ELSE IF Powerup_checkCollision(acc.P[id], b, id, ov)
    THEN LET res == collect(r, acc.P[id])
             nxt == [P |-> [acc.P EXCEPT ![id] = res.p],
                     S |-> [acc.S EXCEPT ![id] = @ + 1],
                     C |-> [acc.C EXCEPT ![id] = Append(@, res.ret)],
                     X |-> Append(acc.X, id)]
         IN checkBallsSrc(r, nxt, id, b + 1, n, ov)
    ELSE checkBallsSrc(r, acc, id, b + 1, n, ov)

\* PowerupSystem.checkCollisions, outer powerups.forEach.
RECURSIVE checkCollisions(_, _, _, _, _)
checkCollisions(r, acc, lst, n, ov) ==
  IF lst = <<>> THEN acc
  ELSE LET id == Head(lst)
           a1 == IF ~acc.P[id].collected /\ (r = "src" \/ ~acc.P[id].expired)
                   THEN (IF r = "part_003" THEN checkBalls003(r, acc, id, 1, n, ov)
                                           ELSE checkBallsSrc(r, acc, id, 1, n, ov))
                   ELSE acc
       IN checkCollisions(r, a1, Tail(lst), n, ov)

\* Balls overlapping each powerup that is on the field, uncollected and
\* unexpired when the pass starts.
OverlapCount(P, lst, ov) ==
  [id \in PowId |->
     IF id \in SeqToSet(lst) /\ ~P[id].collected /\ ~P[id].expired
       THEN Cardinality({b \in Balls : <<b, id>> \in ov}) ELSE 0]

ZeroSig == [id \in PowId |-> 0]

\* PowerupSystem.updatePowerups: forEach with splice inside the loop (the
\* element after a removed one is skipped, and not updated).
RECURSIVE updatePowerups(_, _, _)
updatePowerups(P, lst, i) ==
  IF i > Len(lst) THEN [P |-> P, L |-> lst]
  ELSE LET id == lst[i]
           up == Powerup_update(P[id])
           P1 == [P EXCEPT ![id] = up]
       IN IF shouldRemove(up)
            THEN updatePowerups([P1 EXCEPT ![id].st = "gone"], SeqRemoveAt(lst, i), i + 1)
            ELSE updatePowerups(P1, lst, i + 1)

\* spawnPowerup: below the cap, a random draw may add one powerup.
FreshIds == {id \in PowId : pw[id].st = "none"}

spawnPowerup(P, lst, doSpawn) ==
  IF doSpawn /\ Len(lst) < MAX_POWERUPS_ON_SCREEN /\ FreshIds # {}
    THEN LET id == CHOOSE x \in FreshIds : \A y \in FreshIds : x <= y
         IN [P |-> [P EXCEPT ![id] = NewPowerup], L |-> Append(lst, id)]
    ELSE [P |-> P, L |-> lst]

\* Index of id in lst (0 when absent).
IndexOf(lst, id) ==
  IF id \in SeqToSet(lst) THEN CHOOSE i \in 1..Len(lst) : lst[i] = id ELSE 0

\* part_003 checkCollisions: indices sorted descending, then spliced, which
\* removes exactly the collected powerups.
spliceDescending(lst, X) == SeqFilter(lst, SeqToSet(lst) \ SeqToSet(X))

\* systems/PowerupSystem.js checkCollisions: the recorded indices are spliced
\* in ascending order, each index still the one of the original array.
RECURSIVE spliceAscending(_, _)
spliceAscending(lst, idxs) ==
  IF idxs = <<>> THEN lst
  ELSE spliceAscending(SeqRemoveAt(lst, Head(idxs)), Tail(idxs))

\* ------------------------------------------------- initial states
Sides == {"left", "right"}

\* A reset creates the ball with the next id.
BallId == 0..MaxResets

HazardKinds == {"wall", "portal", "blackhole"}

\* Game / PowerupSystem constructors: one ball, empty collections, no timers.
InitEffectVars ==
  /\ now = 0
  /\ inFrame = FALSE
  /\ gen = 0
  /\ registry = {}
  /\ timers = {}
  /\ acts = <<>>
  /\ napply = 0
  /\ balls = {0}
  /\ beff = [b \in BallId |-> {}]
  /\ peff = [sd \in Sides |-> {}]
  /\ shield = [sd \in Sides |-> FALSE]
  /\ hazards = [k \in HazardKinds |-> <<>>]
  /\ justReset = FALSE

\* new Ball(): nominal speed along the main axis, no effect, enabled.
NewBall(n) ==
  [no |-> n, v |-> BALL_SPEED, baseSpeed |-> BALL_SPEED, mult |-> 100, effs |-> {},
   disabled |-> FALSE, toRemove |-> FALSE, inSet |-> TRUE, scored |-> 0, after |-> 0]
\* scored counts the "ball:score" signals of this ball, after the ticks run
\* since it scored.

InitBallVars ==
  /\ ball = NewBall(0)
  /\ tick = 0
  /\ goals = 0

\* new Ball(): portalCooldown = 0; no portal pair yet.
NoPortalStep == [cooling |-> FALSE, over |-> {}, ran |-> FALSE]

InitPortalVars ==
  /\ portalPairs = <<>>
  /\ pball = [pos |-> 0, cd |-> 0, tp |-> 0, armed |-> FALSE]
  /\ clk = CLOCK_START
  /\ plast = NoPortalStep

\* No wall collision yet; the scenario's ball and wall are drawn by InitWall.
NoWallHit == [hit |-> FALSE, x |-> 0, y |-> 0, dx |-> 0, dy |-> 0]

InitWallVars ==
  /\ wb = [x |-> 0, y |-> 0, dx |-> 1, dy |-> 1]
  /\ wall = [x |-> 0, y |-> 0, width |-> 1, height |-> 1]
  /\ wlast = NoWallHit

\* No ball has reached the paddle yet.
NoContact == [x |-> 0, y |-> "off", ready |-> FALSE, fired |-> "none", dx |-> 0, used |-> 0, before |-> 0]

\* A left paddle without a shield, as Paddle's constructor leaves it.
InitShieldVars ==
  /\ pad = [side |-> "left", hasShield |-> FALSE, shieldReflections |-> 0]
  /\ sgrant = 0
  /\ slast = NoContact

\* No publish yet.
NoDelivery == [state |-> "idle", copy |-> <<>>, log |-> <<>>, threw |-> {}, reported |-> 0, raised |-> FALSE, n |-> 0]

\* A bus without listeners, as EventBus's constructor leaves it.
InitBusVars ==
  /\ events = [has |-> FALSE, listeners |-> <<>>]
  /\ nextListener = 1
  /\ delivery = NoDelivery

\* The state of a powerup id not in use.
NoSpawned == "none"

\* Nothing has run yet; no position search is running.
NoSpawn == [did |-> FALSE, before |-> 0, by |-> "none"]

NoSearch == [state |-> "idle", attempts |-> 0, x |-> 0, overlapped |-> 0]

\* An empty field, as PowerupSystem's constructor leaves it.
InitSpawnVars ==
  /\ spawned = [id \in 1 .. MaxSpawned |-> NoSpawned]
  /\ placedAt = [id \in 1 .. MaxSpawned |-> 0]
  /\ sysPowerups = <<>>
  /\ gamePowerups = <<>>
  /\ spawnLast = NoSpawn
  /\ search = NoSearch

\* No blackhole on the field, no tick run yet.
NoHoleTick == [n |-> 0, D |-> <<>>, pulls |-> <<>>, dv |-> 0, flagged |-> FALSE, removed |-> FALSE, wasMarked |-> FALSE, scored |-> 0, order |-> <<>>]

\* An effect object without any property ({}): every flag reads as undefined.
NoEffect == [scoreBonus |-> 0, blackhole |-> FALSE, shield |-> FALSE, paddleHeight |-> 0,
             ballSpeed |-> 0, duration |-> 0]

\* POWERUP_CONFIG[type] of a type without an entry.
Undefined == [defined |-> FALSE, effect |-> NoEffect]

\* No powerup under observation; nothing collected yet.
NoPup == [st |-> "none", type |-> "none", config |-> Undefined]

NewWorld == [score |-> 0, hazards |-> 0, shield |-> FALSE, beffs |-> {}, peffs |-> {},
             registry |-> 0, threw |-> FALSE]

NoActivation == [kind |-> "none", type |-> "none", result |-> "none", before |-> NewWorld]

InitHoleVars ==
  /\ holes = <<>>
  /\ hlast = NoHoleTick

InitMultVars ==
  /\ bsize = 100
  /\ paddles = [sd \in {"left", "right"} |-> [effs |-> {}, height |-> 100]]

InitTypeVars ==
  /\ pup = NoPup
  /\ world = NewWorld
  /\ ulast = NoActivation
  /\ enabled = {}
  /\ powerupsEnabled = TRUE

\* One ball, no blackhole, no tick run yet.
InitEntVars ==
  /\ ents = [balls |-> 1, marked |-> 0, blackholes |-> 0, synced |-> 0]
  /\ changes = <<>>

\* new Ball(): lastHitBy = null; no effect active.
InitSideVars ==
  /\ pnow = 0
  /\ lastHitBy = "null"
  /\ pfx = {}
  /\ pacts = <<>>

InitMidVars == InitHoleVars /\ InitMultVars /\ InitTypeVars /\ InitEntVars /\ InitSideVars

\* A paddle at the top of the field, at rest.
InitAiVars ==
  ai = [y |-> 0, height |-> 100, effs |-> {}, vel |-> 0, delay |-> 0, prev |-> 0, hprev |-> 100, n |-> 0]

InitMwVars ==
  mw = [x |-> 0, y |-> 0, width |-> 10, height |-> 50, baseX |-> 0, baseY |-> 0, pattern |-> "linear", speed |-> 1, range |-> 0, dir |-> [x |-> 1, y |-> 0], n |-> 0]

InitLoopVars ==
  loop = [isRunning |-> FALSE, isPaused |-> FALSE, queued |-> 0, ran |-> 0, frames |-> 0, updates |-> 0]

InitFxVars ==
  tfx = [reg |-> {}, eff |-> [tg \in {"ball1", "ball2", "left", "right"} |-> {}], clone |-> FALSE, napply |-> 0]

InitIballVars ==
  iball = [b |-> NewBall(0), off |-> FALSE, did |-> {}, flagged |-> FALSE, n |-> 0]

InitScoreVars ==
  scoreboard = [left |-> 0, right |-> 0, last |-> [op |-> "none", side |-> "null", left |-> 0, right |-> 0]]

InitObusVars ==
  obus = [ev |-> [has |-> FALSE, listeners |-> <<>>], once |-> {}, stack |-> <<>>, calls |-> <<>>, publishes |-> 0]

InitLateVars == InitAiVars /\ InitMwVars /\ InitLoopVars /\ InitFxVars /\ InitIballVars /\ InitScoreVars /\ InitObusVars

InitMoreVars == InitMidVars /\ InitLateVars

InitExtVars == InitPortalVars /\ InitWallVars /\ InitShieldVars /\ InitBusVars /\ InitSpawnVars /\ InitMoreVars

\* ------------------------------------------------- collection: actions
InitCollectVars ==
  /\ pw = [id \in PowId |-> NoPowerup]
  /\ field = <<>>
  /\ nballs = 1
  /\ sig = ZeroSig
  /\ ovl = ZeroSig
  /\ calls = [id \in PowId |-> <<>>]

\* Everything outside the paddle, loop and score sections, as constructed.
InitNotLate ==
  /\ rev = "modular"
  /\ InitCollectVars
  /\ InitEffectVars
  /\ InitBallVars
  /\ InitPortalVars
  /\ InitWallVars
  /\ InitShieldVars
  /\ InitBusVars
  /\ InitSpawnVars
  /\ InitMidVars

\* The lifetime of the powerups in A elapses (Date.now() - startTime >= lifetime).
Age(P, A) == [id \in PowId |-> IF id \in A THEN [P[id] EXCEPT !.aged = TRUE] ELSE P[id]]

Gone(P, lst) ==
  [id \in PowId |-> IF P[id].st = "field" /\ id \notin SeqToSet(lst)
                      THEN [P[id] EXCEPT !.st = "gone"] ELSE P[id]]

\* Game.update (core/Game.js): update every object, spawn, detect and resolve
\* the collisions, remove the objects marked for removal.
Game_update(A, doSpawn, ov) ==
  /\ rev = "modular"
  /\ LET P0  == Age(pw, A)
         P1  == [id \in PowId |-> IF id \in SeqToSet(field)
                                    THEN BasePowerup_update(P0[id]) ELSE P0[id]]
         sp  == spawnPowerup(P1, field, doSpawn)
         prs == detectCollisions(1, nballs, sp.L, sp.P, ov)
         acc == resolveCollisions(rev, [P |-> sp.P, S |-> ZeroSig, C |-> calls], prs)
         L2  == SeqFilter(sp.L, {id \in PowId : ~shouldRemove(acc.P[id])})
     IN /\ pw' = Gone(acc.P, L2)
        /\ field' = L2
        /\ sig' = acc.S
        /\ ovl' = OverlapCount(sp.P, sp.L, ov)
        /\ calls' = acc.C
  /\ UNCHANGED <<rev, nballs>>
  /\ UNCHANGED <<effectVars, ballVars, extVars>>

\* PowerupSystem.update: spawn, and in part_003 the powerup sweep.
PowerupSystem_update(A, doSpawn) ==
  /\ rev \in {"src", "part_003"}
  /\ LET sp == spawnPowerup(Age(pw, A), field, doSpawn)
         up == IF rev = "part_003" THEN updatePowerups(sp.P, sp.L, 1) ELSE sp
     IN /\ pw' = up.P
        /\ field' = up.L
  /\ UNCHANGED <<rev, nballs, sig, ovl, calls>>
  /\ UNCHANGED <<effectVars, ballVars, extVars>>

\* PowerupSystem.checkCollisions(balls).
PowerupSystem_checkCollisions(ov) ==
  /\ rev \in {"src", "part_003"}
  /\ LET acc == checkCollisions(rev, [P |-> pw, S |-> ZeroSig, C |-> calls, X |-> <<>>],
                                field, nballs, ov)
         L2  == IF rev = "part_003"
                  THEN spliceDescending(field, acc.X)
                  ELSE spliceAscending(field, [i \in 1..Len(acc.X) |-> IndexOf(field, acc.X[i])])
     IN /\ pw' = Gone(acc.P, L2)
        /\ field' = L2
        /\ sig' = acc.S
        /\ ovl' = OverlapCount(pw, field, ov)
        /\ calls' = acc.C
  /\ UNCHANGED <<rev, nballs>>
  /\ UNCHANGED <<effectVars, ballVars, extVars>>

\* "game:ballSpawned" (clone_ball): Game.addGameObject adds a ball.
BallSpawned ==
  /\ nballs < MaxBalls
  /\ nballs' = nballs + 1
  /\ UNCHANGED <<rev, pw, field, sig, ovl, calls>>
  /\ UNCHANGED <<effectVars, ballVars, extVars>>

OverlapInputs == SUBSET (Balls \X PowId)

NextCollect ==
  \/ \E A \in SUBSET SeqToSet(field), doSpawn \in BOOLEAN, ov \in OverlapInputs :
       Game_update(A, doSpawn, ov)
  \/ \E A \in SUBSET SeqToSet(field), doSpawn \in BOOLEAN : PowerupSystem_update(A, doSpawn)
  \/ \E ov \in OverlapInputs : PowerupSystem_checkCollisions(ov)
  \/ BallSpawned

InitCollect ==
  /\ rev \in CollectRevs
  /\ InitCollectVars
  /\ InitEffectVars
  /\ InitBallVars
  /\ InitExtVars

vars == <<rev, pw, field, nballs, sig, ovl, calls, now, inFrame, gen, registry,
          timers, acts, napply, balls, beff, peff, shield, hazards, justReset,
          ball, tick, goals, portalPairs, pball, clk, plast,
          wb, wall, wlast, pad, sgrant, slast,
          events, nextListener, delivery,
          spawned, placedAt, sysPowerups, gamePowerups, spawnLast, search,
          holes, hlast, bsize, paddles, pup, world, ulast, enabled, powerupsEnabled,
          ents, changes,
          pnow, lastHitBy, pfx, pacts,
          ai,
          mw,
          loop,
          tfx,
          iball,
          scoreboard,
          obus>>

SpecCollect == InitCollect /\ [][NextCollect]_vars

\* ------------------------------------------------- collection: claims
\* C1: in any tick in which two or more balls overlap the same uncollected
\* powerup, exactly one "powerup:collected" signal is published for it.
C1_ExactlyOneSignal ==
  \A id \in PowId : ovl[id] >= 2 => sig[id] = 1

\* C2: collect() reports success and sets collected only on the first call for
\* a powerup, every later call reports failure, and collected never returns to
\* false.
C2_TestAndSet ==
  \A id \in PowId :
    /\ calls[id] # <<>> =>
         /\ calls[id][1] = "true"
         /\ \A i \in 2..Len(calls[id]) : calls[id][i] = "false"
         /\ pw[id].collected

\* =================================================== timed effects, hazards
EffectRevs == {"src", "part_000", "part_003", "part_012"}

\* Revisions whose applyTimedEffect / hazard creators arm a setTimeout.
TimerRevs == {"src", "part_000", "part_012"}

\* Revisions whose update() sweeps the hazard arrays and the powerup list.
SweepRevs == {"part_000", "part_003"}

BallTypes == {"bigger_ball"}

PaddleTypes == {"bigger_paddle"}

\* Hazard kinds the revision can create.
KindsOf(r) ==
  CASE r = "src"      -> {"wall", "portal"}
    [] r = "part_012" -> {"wall", "portal"}
    [] OTHER          -> {"wall", "blackhole"}

Lifetime(k) ==
  CASE k = "wall"   -> WALL_LIFETIME
    [] k = "portal" -> PORTAL_LIFETIME
    [] OTHER        -> BLACKHOLE_LIFETIME

\* The manager object in use: js/game.js reset() constructs a new
\* PowerupManager, Game.reset() keeps the PowerupSystem and calls clear().
Mgr == IF rev = "part_012" THEN gen ELSE 0

\* The activeEffects map of the manager in use.
Registry == {e \in registry : e.mgr = Mgr}

\* generateId(type) (type, Date.now(), Math.random()) in part_003; the template
\* string `${type}_${Date.now()}` in the other revisions.
effectId(r, type, t, n) == IF r = "part_003" THEN <<type, t, n>> ELSE <<type, t, 0>>

\* Map.set(effectId, entry): an entry with the same key is overwritten.
activeEffects_set(reg, e) == {x \in reg : ~(x.id = e.id /\ x.mgr = e.mgr)} \cup {e}

\* Ball.addEffect / Paddle.addEffect: effects.set(type, ...).
addEffect(effs, type) == effs \cup {type}

\* Ball.removeEffect / Paddle.removeEffect: effects.delete(type).
removeEffect(effs, type) == effs \ {type}

\* PowerupSystem.removeEffect(effectId) on manager m.  S = [reg, acts, beff, peff].
\* Nothing happens without an entry; otherwise the removal is announced
\* (ball:effectRemoved / paddle:effectRemoved, handled by Game; PowerupManager
\* calls the target directly) and the entry deleted.
PowerupSystem_removeEffect(S, m, id) ==
  IF ~\E e \in S.reg : e.id = id /\ e.mgr = m THEN S
  ELSE LET e == CHOOSE x \in S.reg : x.id = id /\ x.mgr = m
       IN [reg  |-> S.reg \ {e},
           acts |-> [S.acts EXCEPT ![e.aid].removed = @ + 1],
           beff |-> IF e.target[1] = "ball" /\ (rev = "part_012" \/ e.target[2] \in balls)
                      THEN [S.beff EXCEPT ![e.target[2]] = removeEffect(@, e.type)]
                      ELSE S.beff,
           peff |-> IF e.target[1] = "paddle"
                      THEN [S.peff EXCEPT ![e.target[2]] = removeEffect(@, e.type)]
                      ELSE S.peff]

\* cleanupExpiredEffects: every entry with now - startTime > duration is removed.
\* t is the Date.now() of the sweep.
RECURSIVE cleanupExpiredEffects(_, _, _)
cleanupExpiredEffects(S, m, t) ==
  LET due == {e \in S.reg : e.mgr = m /\ t - e.startTime > e.duration}
  IN IF due = {} THEN S
     ELSE cleanupExpiredEffects(
            PowerupSystem_removeEffect(S, m, (CHOOSE e \in due : TRUE).id), m, t)

\* updateWalls / updateBlackholes: update() destroys a hazard whose age has
\* reached its lifetime; forEach with splice inside the loop.
RECURSIVE updateHazards(_, _, _, _)
updateHazards(lst, i, life, t) ==
  IF i > Len(lst) THEN lst
  ELSE IF t - lst[i].created >= life
         THEN updateHazards(SeqRemoveAt(lst, i), i + 1, life, t)
         ELSE updateHazards(lst, i + 1, life, t)

\* Index of the first element of lst satisfying the match of a hazard timer.
FirstMatch(lst, t) ==
  LET hit(h) == IF t.by = "created" THEN h.created = t.created
                ELSE IF t.by = "id" THEN h.hid = t.hid
                ELSE h.created = lst[1].created
      I == {i \in 1..Len(lst) : hit(lst[i])}
  IN IF I = {} THEN 0 ELSE CHOOSE i \in I : \A j \in I : i <= j

\* How the revision's timer callback finds the hazard it removes.
MatchBy(r, k) ==
  IF r = "src" THEN "created"
  ELSE IF r = "part_000" THEN (IF k = "portal" THEN "created" ELSE "id")
  ELSE IF k = "portal" THEN "first" ELSE "id"

\* A clear() that forgets activeEffects.clear().
PowerupSystem_clear_keepsEffects(reg) == reg

\* PowerupSystem.clear() / new PowerupManager(): the collections a reset empties.
PowerupSystem_clear(reg) == IF rev = "part_012" THEN reg ELSE {}

\* Paddle.reset(): effects.clear().
Paddle_reset(effs) == {}

\* ---------------------------------------------------------------- actions
InitEffects ==
  /\ rev \in EffectRevs
  /\ InitCollectVars
  /\ InitEffectVars
  /\ InitBallVars
  /\ InitExtVars

\* The next animation frame, dt ms after the previous one: PowerupSystem.update()
\* / PowerupManager.update() at the new Date.now(): spawn, powerup sweep, effect
\* sweep, hazard sweeps.  Powerup lifetimes exceed the horizon of this
\* specification, so the powerup sweep finds nothing expired.
Frame(dt, doSpawn) ==
  /\ rev \in EffectRevs
  /\ now + dt <= MaxTime
  /\ now' = now + dt
  /\ LET sp == spawnPowerup(pw, field, doSpawn)
         up == IF rev \in SweepRevs THEN updatePowerups(sp.P, sp.L, 1) ELSE sp
         S  == cleanupExpiredEffects(
                 [reg |-> registry, acts |-> acts, beff |-> beff, peff |-> peff],
                 Mgr, now + dt)
     IN /\ pw' = up.P
        /\ field' = up.L
        /\ registry' = S.reg
        /\ acts' = S.acts
        /\ beff' = S.beff
        /\ peff' = S.peff
        /\ hazards' = IF rev \in SweepRevs
                        THEN [k \in HazardKinds |->
                                updateHazards(hazards[k], 1, Lifetime(k), now + dt)]
                        ELSE hazards
  /\ inFrame' = TRUE
  /\ justReset' = FALSE
  /\ UNCHANGED <<ballVars, extVars>>
  /\ UNCHANGED <<rev, nballs, sig, ovl, calls, gen, timers, napply, balls, shield>>

\* applyPowerupEffect -> applyTimedEffect(type, effect, ball): the effect goes
\* to the ball, or to the paddle on side sd (ball.lastHitBy, or a random side).
applyTimedEffect(type, b, sd) ==
  /\ inFrame
  /\ napply < MaxApply
  /\ b \in balls
  /\ LET target == IF type \in BallTypes THEN <<"ball", b>> ELSE <<"paddle", sd>>
         id     == effectId(rev, type, now, napply + 1)
         e      == [id |-> id, type |-> type, target |-> target, startTime |-> now,
                    duration |-> EFFECT_DURATION, aid |-> Len(acts) + 1, mgr |-> Mgr]
     IN /\ beff' = IF type \in BallTypes THEN [beff EXCEPT ![b] = addEffect(@, type)] ELSE beff
        /\ peff' = IF type \in BallTypes THEN peff ELSE [peff EXCEPT ![sd] = addEffect(@, type)]
        /\ registry' = activeEffects_set(registry, e)
        /\ acts' = Append(acts, [type |-> type, target |-> target, t |-> now, gen |-> gen,
                                 id |-> id, removed |-> 0])
        /\ timers' = IF rev \in TimerRevs
                       THEN timers \cup {[tid |-> napply + 1, kind |-> "effect", id |-> id,
                                          by |-> "key", hid |-> 0, created |-> now,
                                          due |-> now + EFFECT_DURATION, mgr |-> Mgr,
                                          gen |-> gen]}
                       ELSE timers
  /\ napply' = napply + 1
  /\ justReset' = FALSE
  /\ UNCHANGED <<ballVars, extVars>>
  /\ UNCHANGED <<rev, collectVars, now, inFrame, gen, balls, shield,
                 hazards>>

\* applyPowerupEffect -> applyRandomWall / createPortalPair / createBlackhole.
createHazard(k) ==
  /\ rev \in EffectRevs
  /\ inFrame
  /\ napply < MaxApply
  /\ k \in KindsOf(rev)
  /\ hazards' = [hazards EXCEPT ![k] = Append(@, [hid |-> napply + 1, created |-> now])]
  /\ timers' = IF rev \in TimerRevs
                 THEN timers \cup {[tid |-> napply + 1, kind |-> k, id |-> <<>>,
                                    by |-> MatchBy(rev, k), hid |-> napply + 1,
                                    created |-> now, due |-> now + Lifetime(k),
                                    mgr |-> Mgr, gen |-> gen]}
                 ELSE timers
  /\ napply' = napply + 1
  /\ justReset' = FALSE
  /\ UNCHANGED <<ballVars, extVars>>
  /\ UNCHANGED <<rev, collectVars, now, inFrame, gen, registry, acts, balls,
                 beff, peff, shield>>

\* applyPowerupEffect -> applyShield(ball): Paddle.addShield().
applyShield(sd) ==
  /\ rev \in EffectRevs
  /\ inFrame
  /\ napply < MaxApply
  /\ shield' = [shield EXCEPT ![sd] = TRUE]
  /\ napply' = napply + 1
  /\ justReset' = FALSE
  /\ UNCHANGED <<ballVars, extVars>>
  /\ UNCHANGED <<rev, collectVars, now, inFrame, gen, registry, timers, acts,
                 balls, beff, peff, hazards>>

\* A setTimeout callback runs once its delay has elapsed: removeEffect(effectId)
\* for an effect timer, findIndex + splice for a hazard timer.  A callback of a
\* replaced PowerupManager works on that manager's own arrays and map.
TimerFire(t) ==
  /\ t \in timers
  /\ t.due <= now
  /\ timers' = timers \ {t}
  /\ IF t.kind = "effect"
       THEN LET S == PowerupSystem_removeEffect(
                       [reg |-> registry, acts |-> acts, beff |-> beff, peff |-> peff],
                       t.mgr, t.id)
            IN /\ registry' = S.reg
               /\ acts' = S.acts
               /\ beff' = S.beff
               /\ peff' = S.peff
               /\ hazards' = hazards
       ELSE /\ hazards' = IF t.mgr = Mgr
                            THEN [hazards EXCEPT ![t.kind] = SeqRemoveAt(@, FirstMatch(@, t))]
                            ELSE hazards
            /\ UNCHANGED <<registry, acts, beff, peff>>
  /\ justReset' = FALSE
  /\ UNCHANGED <<ballVars, extVars>>
  /\ UNCHANGED <<rev, collectVars, now, inFrame, gen, napply, balls, shield>>

\* Game.reset(): paddles reset, one new ball, the entity list rebuilt, and the
\* powerup system cleared (js/game.js: a new PowerupManager).
Reset ==
  /\ rev \in EffectRevs
  /\ gen < MaxResets
  /\ gen' = gen + 1
  /\ peff' = [sd \in Sides |-> Paddle_reset(peff[sd])]
  /\ shield' = [sd \in Sides |-> FALSE]
  /\ balls' = {gen + 1}
  /\ field' = <<>>
  /\ pw' = Gone(pw, <<>>)
  /\ registry' = PowerupSystem_clear(registry)
  /\ hazards' = [k \in HazardKinds |-> <<>>]
  /\ inFrame' = FALSE
  /\ justReset' = TRUE
  /\ UNCHANGED <<ballVars, extVars>>
  /\ UNCHANGED <<rev, nballs, sig, ovl, calls, now, timers, acts, napply, beff>>

\* The random spawn draw; here it succeeds on an empty field only.
SpawnDraws == IF field = <<>> THEN BOOLEAN ELSE {FALSE}

\* Timed effects: frames 2 s apart, activations, timers and resets.
NextEffects ==
  \/ \E dt \in {2000} : Frame(dt, FALSE)
  \/ \E type \in BallTypes \cup PaddleTypes, b \in balls, sd \in Sides :
       applyTimedEffect(type, b, sd)
  \/ \E t \in timers : TimerFire(t)
  \/ Reset

SpecEffects == InitEffects /\ [][NextEffects]_vars

\* Resets: frames 4 s apart, with powerups, hazards and shields as well.
NextReset ==
  \/ \E dt \in {4000}, doSpawn \in SpawnDraws : Frame(dt, doSpawn)
  \/ \E type \in BallTypes \cup PaddleTypes, b \in balls, sd \in Sides :
       applyTimedEffect(type, b, sd)
  \/ \E k \in HazardKinds : createHazard(k)
  \/ \E sd \in Sides : applyShield(sd)
  \/ \E t \in timers : TimerFire(t)
  \/ Reset

SpecReset == InitEffects /\ [][NextReset]_vars

\* ------------------------------------------------ timed effects: claims
\* The effect keys of a target that is still addressable.
EffectsOf(target) == IF target[1] = "ball" THEN beff[target[2]] ELSE peff[target[2]]

\* The registry entry written by the i-th applyTimedEffect call is still there.
EntryPresent(i) == \E e \in Registry : e.aid = i

\* The i-th activation was made since the last reset.
NotDropped(i) == acts[i].gen = gen

\* C3: at all times the registry holds at most one entry per (target,
\* effect-type) pair.
C3_OneEntryPerTargetType ==
  \A e1, e2 \in Registry :
    (e1.target = e2.target /\ e1.type = e2.type) => e1 = e2

\* C4: when a type is re-activated at t2 on a target on which an activation of
\* the same type made at t1 < t2 is still active, the target keeps the effect
\* until t2 + D; the passing of t1 + D does not remove it.
C4_ReactivationRestarts ==
  \A i, j \in DOMAIN acts :
    ( /\ NotDropped(i) /\ NotDropped(j)
      /\ acts[i].target = acts[j].target /\ acts[i].type = acts[j].type
      /\ acts[i].t < acts[j].t /\ acts[j].t < acts[i].t + EFFECT_DURATION
      /\ now < acts[j].t + EFFECT_DURATION )
    => acts[j].type \in EffectsOf(acts[j].target)

\* C5: an effect applied at t with duration D is in the registry at every tick
\* time t' with t <= t' < t + D and absent at every tick time t' >= t + D.
C5_PresentUntilExpiry ==
  inFrame =>
    \A i \in DOMAIN acts :
      NotDropped(i) =>
        /\ (acts[i].t <= now /\ now < acts[i].t + EFFECT_DURATION) => EntryPresent(i)
        /\ now >= acts[i].t + EFFECT_DURATION => ~EntryPresent(i)

\* A later activation of the same type on the same target that wrote the same
\* registry key: the restart of one effect, announced once.
Superseded(i) ==
  \E j \in DOMAIN acts :
    /\ j > i /\ NotDropped(j)
    /\ acts[j].target = acts[i].target /\ acts[j].type = acts[i].type
    /\ acts[j].id = acts[i].id

\* C6: for every timed effect that is registered and not dropped by a reset,
\* the removed signal is published exactly once: never twice, and once by the
\* time its registry entry is gone.
C6_RemovedExactlyOnce ==
  \A i \in DOMAIN acts :
    NotDropped(i) =>
      /\ acts[i].removed <= 1
      /\ (~EntryPresent(i) /\ ~Superseded(i)) => acts[i].removed = 1

\* What a player or a listener can observe of the running game.
Observable == <<Registry, hazards, field, peff, shield, [b \in balls |-> beff[b]]>>

\* C7: after a reset, an expiry scheduled before it removes or changes nothing.
C7_NoStaleExpiry ==
  [][(\E t \in timers : t.gen < gen /\ TimerFire(t)) => Observable' = Observable]_vars

\* C8: immediately after a reset no powerup, hazard or registry entry remains,
\* exactly one ball exists, and no paddle carries a timed effect or a shield.
C8_ResetClearsEverything ==
  justReset =>
    /\ field = <<>>
    /\ \A k \in HazardKinds : hazards[k] = <<>>
    /\ Registry = {}
    /\ Cardinality(balls) = 1
    /\ \A sd \in Sides : peff[sd] = {} /\ ~shield[sd]

\* A reset that had a registry entry, a paddle effect and a pending timer to drop.
C8_Witness ==
  /\ justReset
  /\ timers # {}
  /\ \E i \in DOMAIN acts : acts[i].gen < gen /\ acts[i].removed = 0

\* ========================================================== ball physics
Abs(x) == IF x < 0 THEN -x ELSE x

Sign(x) == IF x < 0 THEN -1 ELSE 1

Min(a, b) == IF a < b THEN a ELSE b

Max(a, b) == IF a > b THEN a ELSE b

\* Ball.getSpeed(): the magnitude of the velocity.
getSpeed(b) == Abs(b.v)

\* Ball.setSpeed(speed): rescales the velocity, nothing for a ball at rest.
setSpeed(b, speed) == IF getSpeed(b) > 0 THEN [b EXCEPT !.v = Sign(b.v) * speed] ELSE b

\* The product of the ballSpeed multipliers of the active effects (per cent).
speedMultiplier(effs) ==
  ((IF "speed_up" \in effs THEN SPEED_UP ELSE 100)
     * (IF "speed_down" \in effs THEN SPEED_DOWN ELSE 100)) \div 100

\* Ball.applyEffects(): when the multiplier changed, the speed becomes
\* baseSpeed * multiplier.
Ball_applyEffects(b) ==
  LET m == speedMultiplier(b.effs)
  IN IF m # b.mult
       THEN [b EXCEPT !.mult = m,
                      !.v = IF getSpeed(b) > 0 THEN Sign(b.v) * ((b.baseSpeed * m) \div 100)
                                               ELSE b.v]
       ELSE b

\* Ball.addEffect(type, effect) / Ball.removeEffect(type).
Ball_addEffect(b, type) == Ball_applyEffects([b EXCEPT !.effs = addEffect(@, type)])

Ball_removeEffect(b, type) == Ball_applyEffects([b EXCEPT !.effs = removeEffect(@, type)])

\* Ball.increaseSpeed(increment), called by handlePaddleCollision.
Ball_increaseSpeed(b, increment) ==
  LET newSpeed == Min(MAX_BALL_SPEED, getSpeed(b) + increment)
  IN setSpeed([b EXCEPT !.baseSpeed = (newSpeed * 100) \div b.mult], newSpeed)

\* A triggerScore() that publishes without disabling the ball.
Ball_triggerScore_staysEnabled(b) == [b EXCEPT !.scored = @ + 1]

\* Ball.triggerScore(): publish "ball:score", then disable.
Ball_triggerScore(b) == [b EXCEPT !.scored = @ + 1, !.disabled = TRUE]

\* Ball.checkScoring(): nothing for a disabled ball; off says that the ball is
\* past a goal line by more than the score buffer.
Ball_checkScoring(b, off) ==
  IF b.disabled THEN b ELSE IF off THEN Ball_triggerScore(b) ELSE b

\* Ball.update(): a disabled ball is marked for removal; otherwise the minimum
\* speed is enforced, the ball moves and the walls are checked.
Ball_update(b, off) ==
  IF b.disabled THEN [b EXCEPT !.toRemove = TRUE]
  ELSE Ball_checkScoring(
         IF getSpeed(b) < BALL_SPEED \div 2 THEN setSpeed(b, BALL_SPEED \div 2) ELSE b, off)

\* Blackhole.applyGravityToBall(ball): inside the attraction band the velocity
\* gains force * max(0.1, 1 - distance / attractionRadius) towards the hole
\* (dir = 1 when the hole lies ahead on the axis, -1 when behind).
Blackhole_applyGravityToBall(b, distance, dir) ==
  IF distance > ATTRACTION_RADIUS \/ distance < BLACKHOLE_RADIUS THEN b
  ELSE [b EXCEPT !.v = @ + dir * Max(ATTRACTION_FORCE \div 10,
                     ATTRACTION_FORCE - (ATTRACTION_FORCE * distance) \div ATTRACTION_RADIUS)]

\* Blackhole.checkBallConsumption(ball).
Blackhole_checkBallConsumption(distance) == distance <= BLACKHOLE_RADIUS + BALL_SIZE

\* PowerupSystem.updateBlackholes(balls): every blackhole pulls the ball, then
\* disables it when it is consumed.  n blackholes, all at the given distance
\* and on the same side of the ball.
RECURSIVE updateBlackholes(_, _, _, _)
updateBlackholes(b, n, distance, dir) ==
  IF n = 0 THEN b
  ELSE LET g == Blackhole_applyGravityToBall(b, distance, dir)
       IN updateBlackholes(
            IF Blackhole_checkBallConsumption(distance) THEN [g EXCEPT !.disabled = TRUE]
            ELSE g, n - 1, distance, dir)

\* Ball.clone(): opposite dx, same speed, baseSpeed and multiplier, then every
\* active effect is added again.
RECURSIVE addEffects(_, _)
addEffects(b, types) ==
  IF types = {} THEN b
  ELSE LET ty == CHOOSE x \in types : TRUE
       IN addEffects(Ball_addEffect(b, ty), types \ {ty})

\* "ball:effectRemoved" for each expired effect of the ball.
RECURSIVE removeEffects(_, _)
removeEffects(b, types) ==
  IF types = {} THEN b
  ELSE LET ty == CHOOSE x \in types : TRUE
       IN removeEffects(Ball_removeEffect(b, ty), types \ {ty})

Ball_clone(b, n) ==
  addEffects([NewBall(n) EXCEPT !.v = -b.v, !.baseSpeed = b.baseSpeed, !.mult = b.mult],
             b.effs)

\* What the collision step of the tick does to the ball: nothing, a paddle hit,
\* a collected speed powerup, or a clone powerup with the clone observed from
\* then on ("none" covers the original of a clone, which is left as it is).
CollisionInputs == {"none", "paddle", "speed_up", "speed_down", "clone"}

resolveBallCollision(b, c) ==
  CASE c = "paddle" -> Ball_increaseSpeed(b, SPEED_INCREMENT)
    [] c \in {"speed_up", "speed_down"} -> Ball_addEffect(b, c)
    [] c = "clone" -> Ball_clone(b, b.no + 1)
    [] OTHER -> b

\* Game.removeMarkedObjects().
removeMarkedObjects(b) == IF b.toRemove THEN [b EXCEPT !.inSet = FALSE] ELSE b

\* Distances of the ball to the blackholes that a tick can see: inside the
\* attraction band and outside the consumption radius, or inside both.
PulledAt == {45}

ConsumedAt == {30}


InitBall ==
  /\ rev = "modular"
  /\ InitCollectVars
  /\ InitEffectVars
  /\ InitBallVars
  /\ InitExtVars

\* Game.update(): update the ball, sweep expired effects (exp) and run the
\* blackholes, resolve the collisions, remove the marked objects.
Game_tick(off, exp, n, distance, dir, c) ==
  /\ tick < MaxTicks
  /\ ball.inSet
  /\ exp \subseteq ball.effs
  /\ c = "clone" => ball.no < MaxBallNo
  /\ LET b1 == Ball_update(ball, off)
         b2 == updateBlackholes(removeEffects(b1, exp), n, distance, dir)
         b3 == resolveBallCollision(b2, c)
         b4 == removeMarkedObjects(b3)
     IN /\ ball' = IF b4.no = ball.no /\ ball.scored > 0
                    THEN [b4 EXCEPT !.after = Min(@ + 1, 2)] ELSE b4
        /\ goals' = goals + (b1.scored - ball.scored)
  /\ tick' = tick + 1
  /\ UNCHANGED <<rev, collectVars, effectVars, extVars>>

\* Game.spawnNewBall(), after the last ball was removed: the new ball is
\* observed from then on.
spawnNewBall ==
  /\ ~ball.inSet
  /\ ball.no < MaxBallNo
  /\ ball' = NewBall(ball.no + 1)
  /\ UNCHANGED <<rev, collectVars, effectVars, extVars, tick, goals>>

\* Scoring, consumption, removal and respawn of the observed ball.
NextBall ==
  \/ \E off \in BOOLEAN, exp \in SUBSET {"speed_up", "speed_down"}, n \in {0, 1},
        distance \in ConsumedAt, c \in CollisionInputs :
       Game_tick(off, exp, n, distance, 1, c)
  \/ spawnNewBall

SpecBall == InitBall /\ [][NextBall]_vars

\* The speed of a ball that stays on the field, under paddle hits, speed
\* effects, cloning and the pull of up to MaxHoles blackholes.
NextSpeed ==
  \E exp \in SUBSET {"speed_up", "speed_down"}, n \in 0..MaxHoles, distance \in PulledAt,
     dir \in {-1, 1}, c \in CollisionInputs :
    Game_tick(FALSE, exp, n, distance, dir, c)

SpecSpeed == InitBall /\ [][NextSpeed]_vars

\* ---------------------------------------------------------- ball: claims
\* C9: for every ball in play at every tick boundary,
\* minSpeed <= |velocity| <= maxSpeed, with minSpeed half the nominal speed.
C9_SpeedWithinBounds ==
  (ball.inSet /\ ~ball.disabled) =>
    (BALL_SPEED \div 2 <= getSpeed(ball) /\ getSpeed(ball) <= MAX_BALL_SPEED)

PortalRevs == {"modular", "physics", "pair", "part_012"}

\* Places of the field a portal or the ball can be at; the ball overlaps a
\* portal exactly when both are at the same place, 0 is away from every portal.
Pos == 1..MaxPos

\* new PortalPair / two new Portal: each portal takes its own startTime.
NewPair(p1, p2, t1, t2) ==
  [p1 |-> p1, p2 |-> p2, s1 |-> t1, s2 |-> t2, a1 |-> TRUE, a2 |-> TRUE,
   in1 |-> TRUE, in2 |-> TRUE, created |-> t2]

\* Portal.update(): destroy() once the age has reached the lifetime.
Portal_update(active, startTime, t) ==
  IF t - startTime >= PORTAL_LIFETIME THEN FALSE ELSE active

\* Ball.update(): the portal cooldown counts down by deltaTime while positive.
Ball_updateCooldown(cd) == IF cd > 0 THEN cd - DELTA_TIME ELSE cd

\* ball.x = paired.x; ball.y = paired.y; ball.portalCooldown = cooldown.
teleport(b, dest, cooldown) ==
  [b EXCEPT !.pos = dest, !.cd = cooldown, !.tp = @ + 1, !.armed = TRUE]

\* The portals among the game objects, in insertion order, as <<pair, member>>.
RECURSIVE PortalObjects(_, _)
PortalObjects(P, k) ==
  IF k > Len(P) THEN <<>>
  ELSE (IF P[k].in1 THEN << <<k, 1>> >> ELSE <<>>)
       \o (IF P[k].in2 THEN << <<k, 2>> >> ELSE <<>>)
       \o PortalObjects(P, k + 1)

PortalAt(P, o) == IF o[2] = 1 THEN P[o[1]].p1 ELSE P[o[1]].p2

PairedAt(P, o) == IF o[2] = 1 THEN P[o[1]].p2 ELSE P[o[1]].p1

PortalActive(P, o) == IF o[2] = 1 THEN P[o[1]].a1 ELSE P[o[1]].a2

PairedActive(P, o) == IF o[2] = 1 THEN P[o[1]].a2 ELSE P[o[1]].a1

\* CollisionSystem.checkPortalCollision(ball, portal).
checkPortalCollision(b, P, o) == ~(b.cd > 0) /\ b.pos = PortalAt(P, o)

\* CollisionSystem.detectCollisions, ball-portal part.
RECURSIVE detectPortalCollisions(_, _, _)
detectPortalCollisions(b, P, objs) ==
  IF objs = <<>> THEN <<>>
  ELSE (IF PortalActive(P, Head(objs)) /\ PairedActive(P, Head(objs))
           /\ checkPortalCollision(b, P, Head(objs))
          THEN <<Head(objs)>> ELSE <<>>)
       \o detectPortalCollisions(b, P, Tail(objs))

\* CollisionSystem.resolveBallPortalCollision(ball, portal).
resolveBallPortalCollision(b, P, o) ==
  IF b.cd > 0 THEN b ELSE teleport(b, PairedAt(P, o), PORTAL_COOLDOWN)

RECURSIVE resolvePortalCollisions(_, _, _)
resolvePortalCollisions(b, P, cols) ==
  IF cols = <<>> THEN b
  ELSE resolvePortalCollisions(resolveBallPortalCollision(b, P, Head(cols)), P, Tail(cols))

\* PhysicsSystem.checkBallPortalCollision(ball, portalPair).
PhysicsSystem_checkBallPortalCollision(b, pair) ==
  IF b.cd > 0 THEN b
  ELSE IF b.pos = pair.p1 THEN teleport(b, pair.p2, PORTAL_COOLDOWN)
  ELSE IF b.pos = pair.p2 THEN teleport(b, pair.p1, PORTAL_COOLDOWN)
  ELSE b

\* Portal.checkBallCollision(ball) of member i of the pair.
Portal_checkBallCollision(b, pair, i) ==
  /\ IF i = 1 THEN pair.a1 ELSE pair.a2
  /\ IF i = 1 THEN pair.a2 ELSE pair.a1
  /\ b.pos = (IF i = 1 THEN pair.p1 ELSE pair.p2)

\* Portal.teleportBall(ball) of member i of the pair.
Portal_teleportBall(b, pair, i) ==
  IF ~(IF i = 1 THEN pair.a2 ELSE pair.a1) THEN b
  ELSE teleport(b, IF i = 1 THEN pair.p2 ELSE pair.p1, PORTAL_COOLDOWN)

\* PortalPair.checkBallCollision(ball).
PortalPair_checkBallCollision(b, pair) ==
  IF b.cd > 0 THEN b
  ELSE IF Portal_checkBallCollision(b, pair, 1) THEN Portal_teleportBall(b, pair, 1)
  ELSE IF Portal_checkBallCollision(b, pair, 2) THEN Portal_teleportBall(b, pair, 2)
  ELSE b

\* PhysicsSystem.checkPortalCollisions: every listed pair in turn, each call
\* with its own cooldown test.
RECURSIVE checkPortalCollisions(_, _, _, _)
checkPortalCollisions(r, b, P, k) ==
  IF k > Len(P) THEN b
  ELSE checkPortalCollisions(r,
         IF ~P[k].in1 THEN b
         ELSE IF r = "physics" THEN PhysicsSystem_checkBallPortalCollision(b, P[k])
         ELSE PortalPair_checkBallCollision(b, P[k]),
         P, k + 1)

\* PowerupManager.checkPortalCollision, the portalPairs.forEach callback: the
\* return after a teleport leaves the callback, the loop goes on with the next
\* pair.
RECURSIVE forEachPortalPair(_, _, _, _)
forEachPortalPair(b, P, k, t) ==
  IF k > Len(P) THEN b
  ELSE forEachPortalPair(
         IF b.pos = P[k].p1 THEN teleport(b, P[k].p2, t + PORTAL_COOLDOWN)
         ELSE IF b.pos = P[k].p2 THEN teleport(b, P[k].p1, t + PORTAL_COOLDOWN)
         ELSE b,
         P, k + 1, t)

\* PowerupManager.checkPortalCollision(ball): the cooldown is tested once,
\* before the loop.
PowerupManager_checkPortalCollision(b, P, t) ==
  IF b.cd # 0 /\ t < b.cd THEN b ELSE forEachPortalPair(b, P, 1, t)

\* Date.now() read by the j-th portal update of a tick that starts at t, when
\* the clock moves on by one millisecond before read adv (0: not at all).
ReadAt(t, j, adv) == IF adv # 0 /\ j >= adv THEN t + 1 ELSE t

\* Step 1 of Game.update / PortalPair.update(): each portal of each pair runs
\* Portal.update() with its own Date.now().
updatePortalObjects(P, t, adv) ==
  [k \in 1..Len(P) |->
     [P[k] EXCEPT !.a1 = Portal_update(@, P[k].s1, ReadAt(t, 2 * k - 1, adv)),
                  !.a2 = Portal_update(@, P[k].s2, ReadAt(t, 2 * k, adv))]]

\* Game.removeMarkedObjects(): a destroyed portal leaves the game objects.
removeMarkedPortals(P) ==
  [k \in 1..Len(P) |-> [P[k] EXCEPT !.in1 = @ /\ P[k].a1, !.in2 = @ /\ P[k].a2]]

\* PortalPair.shouldRemove(): the pair leaves the list when either portal is
\* destroyed.
removeMarkedPairs(P) ==
  [k \in 1..Len(P) |->
     [P[k] EXCEPT !.in1 = @ /\ P[k].a1 /\ P[k].a2, !.in2 = @ /\ P[k].a1 /\ P[k].a2]]

\* The setTimeout callbacks of PowerupManager.createPortalPair that are due at
\* t: each removes the pair at the head of portalPairs.  Pairs are created in
\* order, so the pending timers are those of the pairs still listed.
RECURSIVE portalTimers(_, _)
portalTimers(P, t) ==
  IF P # <<>> /\ (\E k \in 1..Len(P) : P[k].created + PORTAL_LIFETIME <= t)
    THEN portalTimers(Tail(P), t)
    ELSE P

\* The portals of live pairs the ball overlaps, as the places they lead to.
Overlapped(b, P) ==
  {PairedAt(P, <<k, i>>) : <<k, i>> \in
     {o \in (1..Len(P)) \X {1, 2} :
        /\ P[o[1]].in1 /\ P[o[1]].in2 /\ P[o[1]].a1 /\ P[o[1]].a2
        /\ b.pos = PortalAt(P, o)}}

InitPortal ==
  /\ rev \in PortalRevs
  /\ InitCollectVars
  /\ InitEffectVars
  /\ InitBallVars
  /\ InitExtVars

\* The portal powerup is collected (before the first tick under observation):
\* createPortalPair / PortalPowerup.applyEffect; the clock may move on by d ms
\* between the two constructors.
createPortalPair(p1, p2, d) ==
  /\ rev \in PortalRevs
  /\ ~plast.ran
  /\ Len(portalPairs) < MaxPairs
  /\ p1 # p2
  /\ portalPairs' = Append(portalPairs,
                      IF rev = "part_012" THEN NewPair(p1, p2, clk, clk)
                      ELSE NewPair(p1, p2, clk, clk + d))
  /\ clk' = IF rev = "part_012" THEN clk ELSE clk + d
  /\ UNCHANGED <<pball, plast>>
  /\ UNCHANGED notPortalVars

\* One tick, dt ms after the last: the ball moves to mv and its cooldown counts
\* down, the portals age, the portal collisions are resolved, destroyed
\* portals are removed.
PortalTick(dt, adv, mv, lim) ==
  /\ rev \in PortalRevs
  /\ clk + dt + 1 <= lim
  /\ adv <= 2 * Len(portalPairs)
  /\ LET t  == clk + dt
         t2 == IF adv # 0 /\ rev # "part_012" THEN t + 1 ELSE t
         b0 == [pball EXCEPT !.pos = mv, !.cd = Ball_updateCooldown(@),
                             !.tp = 0, !.armed = FALSE]
         P1 == IF rev = "part_012" THEN portalTimers(portalPairs, t)
               ELSE updatePortalObjects(portalPairs, t, adv)
         b1 == CASE rev = "modular" ->
                      resolvePortalCollisions(b0, P1,
                        detectPortalCollisions(b0, P1, PortalObjects(P1, 1)))
                 [] rev = "part_012" -> PowerupManager_checkPortalCollision(b0, P1, t)
                 [] OTHER -> checkPortalCollisions(rev, b0, P1, 1)
         P2 == CASE rev = "modular" -> removeMarkedPortals(P1)
                 [] rev = "part_012" -> P1
                 [] OTHER -> removeMarkedPairs(P1)
     IN /\ pball' = b1
        /\ portalPairs' = P2
        /\ clk' = t2
        /\ plast' = [cooling |-> IF rev = "part_012" THEN b0.cd # 0 /\ t < b0.cd
                                 ELSE b0.cd > 0,
                     over |-> Overlapped(b0, P1), ran |-> TRUE]
  /\ UNCHANGED notPortalVars

\* Teleports and cooldowns: ticks 16 ms apart.
NextPortal ==
  \/ \E p1 \in Pos : \E p2 \in {p \in Pos : p > p1} : createPortalPair(p1, p2, 0)
  \/ \E mv \in 0..MaxPos : PortalTick(DELTA_TIME, 0, mv, MaxClock)

SpecPortal == InitPortal /\ [][NextPortal]_vars

\* Portal lifetimes: ticks about 5 s apart, the millisecond clock may move on
\* between two reads.
NextPortalLife ==
  \/ \E p1, p2 \in Pos, d \in {0, 1} : createPortalPair(p1, p2, d)
  \/ \E dt \in {4999, 5000}, adv \in 0..(2 * MaxPairs), mv \in {0} :
       PortalTick(dt, adv, mv, MaxLifeClock)

SpecPortalLife == InitPortal /\ [][NextPortalLife]_vars

\* ------------------------------------------------------- portals: claims
\* C11: a ball whose portal cooldown has not expired is not relocated by any
\* portal, and a ball is teleported at most once per cooldown window.
C11_NoTeleportInCooldown ==
  plast.ran => /\ (plast.cooling => pball.tp = 0)
               /\ pball.tp <= 1

\* C12: a ball with no active cooldown that overlaps a portal of a live pair is
\* at the paired portal's position after the step, with its cooldown armed.
C12_TeleportToPaired ==
  (plast.ran /\ ~plast.cooling /\ plast.over # {}) =>
    (pball.pos \in plast.over /\ pball.armed)

\* C13: at every tick boundary the two portals of a pair are both active and
\* listed, or neither is.
C13_PairExpiresTogether ==
  \A k \in 1..Len(portalPairs) :
    (portalPairs[k].a1 /\ portalPairs[k].in1) = (portalPairs[k].a2 /\ portalPairs[k].in2)

\* ================================================================== walls
\* Ball.handleWallCollision, PhysicsSystem.checkBallWallCollision and
\* PowerupManager.checkWallCollision hold the same resolution; coordinates are
\* in units of the ball radius.
Coord == 0..MaxCoord

Velocity == {-2, -1, 1, 2}

\* Broad-phase test: the ball's bounding box against the wall's rectangle.
overlaps(b, w) ==
  /\ b.x + BallRadius > w.x
  /\ b.x - BallRadius < w.x + w.width
  /\ b.y + BallRadius > w.y
  /\ b.y - BallRadius < w.y + w.height

\* Penetration depth to each side of the wall.
overlapLeft(b, w) == b.x + BallRadius - w.x

overlapRight(b, w) == w.x + w.width - (b.x - BallRadius)

overlapTop(b, w) == b.y + BallRadius - w.y

overlapBottom(b, w) == w.y + w.height - (b.y - BallRadius)

minOverlapX(b, w) == Min(overlapLeft(b, w), overlapRight(b, w))

minOverlapY(b, w) == Min(overlapTop(b, w), overlapBottom(b, w))

\* A resolution that always takes the X axis.
Ball_handleWallCollision_alongX(b, w) ==
  [b EXCEPT !.x = IF overlapLeft(b, w) < overlapRight(b, w)
                    THEN w.x - BallRadius ELSE w.x + w.width + BallRadius,
            !.dx = -b.dx]

\* Ball.handleWallCollision(wall): resolve along the axis of the smaller
\* penetration (Y when equal), reposition on it and reflect its velocity.
Ball_handleWallCollision(b, w) ==
  IF minOverlapX(b, w) < minOverlapY(b, w)
    THEN [b EXCEPT !.x = IF overlapLeft(b, w) < overlapRight(b, w)
                           THEN w.x - BallRadius ELSE w.x + w.width + BallRadius,
                   !.dx = -b.dx]
    ELSE [b EXCEPT !.y = IF overlapTop(b, w) < overlapBottom(b, w)
                           THEN w.y - BallRadius ELSE w.y + w.height + BallRadius,
                   !.dy = -b.dy]

\* A ball and a wall somewhere on the field.
InitWall ==
  /\ rev = "modular"
  /\ InitCollectVars
  /\ InitEffectVars
  /\ InitBallVars
  /\ InitMoreVars
  /\ InitPortalVars
  /\ InitShieldVars
  /\ InitBusVars
  /\ InitSpawnVars
  /\ wb \in [x : Coord, y : Coord, dx : Velocity, dy : Velocity]
  /\ wall \in [x : {3}, y : {3}, width : {1, 3}, height : {1, 2}]
  /\ ~overlaps(wb, wall)
  /\ wlast = NoWallHit

\* One tick: Ball.update() moves the ball, the collision step resolves an
\* overlap with the wall.
WallTick ==
  /\ rev = "modular"
  /\ wb.x + wb.dx \in Coord
  /\ wb.y + wb.dy \in Coord
  /\ LET b1 == [wb EXCEPT !.x = @ + wb.dx, !.y = @ + wb.dy]
     IN IF overlaps(b1, wall)
          THEN /\ wb' = Ball_handleWallCollision(b1, wall)
               /\ wlast' = [hit |-> TRUE, x |-> b1.x, y |-> b1.y, dx |-> b1.dx, dy |-> b1.dy]
          ELSE /\ wb' = b1
               /\ wlast' = NoWallHit
  /\ UNCHANGED wall
  /\ UNCHANGED notWallVars

NextWall == WallTick

SpecWall == InitWall /\ [][NextWall]_vars

ShieldRevs == {"modular", "part_011"}

PaddleSides == {"left", "right"}

Radius2 == 2 * BallRadius

PaddleWidth2 == 2

X2 == 0 .. 2 * MaxCoord

\* Where the ball is vertically: outside the canvas, on the table beside the
\* paddle, or within the paddle's span.
Heights == {"off", "table", "paddle"}

paddleLeft(p) == IF p.side = "left" THEN 2 * Radius2 ELSE 2 * MaxCoord - 2 * Radius2 - PaddleWidth2

paddleRight(p) == paddleLeft(p) + PaddleWidth2

\* Paddle.addShield()
Paddle_addShield(p) == [p EXCEPT !.hasShield = TRUE, !.shieldReflections = 0]

\* Paddle.removeShield()
Paddle_removeShield(p) == [p EXCEPT !.hasShield = FALSE, !.shieldReflections = 0]

\* The test both resolutions make before the shield is considered.
shieldReady(p) == p.hasShield /\ p.shieldReflections < MAX_SHIELD_REFLECTIONS

\* The ball's centre is beyond the paddle's edge on the side of its goal.
behindPaddle(p, b) ==
  \/ p.side = "left" /\ b.x < paddleLeft(p)
  \/ p.side = "right" /\ b.x > paddleRight(p)

\* The normal paddle collision test of Paddle.checkCollision.
touchesPaddle(p, b) ==
  /\ b.x + Radius2 > paddleLeft(p)
  /\ b.x - Radius2 < paddleRight(p)
  /\ b.y = "paddle"

\* The horizontal direction either handler leaves the ball with: away from
\* the paddle's goal.
awayFromGoal(p) == IF p.side = "left" THEN 1 ELSE -1

\* A reflection that leaves the shield on the paddle.
Paddle_reflectBallWithShield_keepsShield(p) ==
  [p EXCEPT !.shieldReflections = @ + 1]

\* Paddle.reflectBallWithShield(ball): count the reflection, remove the shield
\* once the count reaches the maximum.
Paddle_reflectBallWithShield(p) ==
  LET p1 == [p EXCEPT !.shieldReflections = @ + 1]
  IN IF p1.shieldReflections >= MAX_SHIELD_REFLECTIONS
       THEN Paddle_removeShield(p1)
       ELSE p1

\* What one contact did: the paddle afterwards, the handler that ran, the
\* ball's direction, the charges counted.
Contact(p, b, fired) ==
  CASE fired = "shield" ->
         [pad |-> Paddle_reflectBallWithShield(p), fired |-> fired,
          dx |-> awayFromGoal(p), used |-> 1]
    [] fired = "bounce" ->
         [pad |-> p, fired |-> fired, dx |-> awayFromGoal(p), used |-> 0]
    [] OTHER ->
         [pad |-> p, fired |-> fired, dx |-> b.dx, used |-> 0]

\* A collision test whose shield reflects a ball wherever it is.
Paddle_checkCollision_shieldAnywhere(p, b) ==
  IF shieldReady(p) /\ b.y # "off"
    THEN Contact(p, b, "shield")
    ELSE IF touchesPaddle(p, b) THEN Contact(p, b, "bounce") ELSE Contact(p, b, "none")

\* Paddle.checkCollision(ball): the shield reflects a ball behind the paddle
\* anywhere on the table; otherwise the normal test and bounce.
Paddle_checkCollision(p, b) ==
  IF shieldReady(p) /\ behindPaddle(p, b) /\ b.y # "off"
    THEN Contact(p, b, "shield")
    ELSE IF touchesPaddle(p, b) THEN Contact(p, b, "bounce") ELSE Contact(p, b, "none")

\* Paddle.handleBallCollision(ball) of the paddle the collision system
\* resolves against: the shield reflection for a ball on the far side, the
\* normal bounce otherwise.
Paddle_handleBallCollision(p, b) ==
  IF shieldReady(p) /\ behindPaddle(p, b)
    THEN Contact(p, b, "shield")
    ELSE Contact(p, b, "bounce")

\* CollisionSystem.resolveBallPaddleCollision(ball, paddle), called for a ball
\* the detection found touching the paddle.
resolveBallPaddleCollision(p, b) ==
  IF shieldReady(p)
    THEN Paddle_handleBallCollision(p, b)
    ELSE Contact(p, b, "bounce")

\* The paddle step of one revision for one ball.
paddleStep(r, p, b) ==
  IF r = "modular"
    THEN IF touchesPaddle(p, b) THEN resolveBallPaddleCollision(p, b) ELSE Contact(p, b, "none")
    ELSE Paddle_checkCollision(p, b)

ShieldBall == [x : X2, y : Heights, dx : {-1, 1}]

InitShield ==
  /\ rev \in ShieldRevs
  /\ InitCollectVars
  /\ InitEffectVars
  /\ InitBallVars
  /\ InitMoreVars
  /\ InitPortalVars
  /\ InitWallVars
  /\ InitBusVars
  /\ InitSpawnVars
  /\ pad \in [side : PaddleSides, hasShield : {FALSE}, shieldReflections : {0}]
  /\ sgrant = 0
  /\ slast = NoContact

\* The shield powerup is collected for this paddle.
addShield ==
  /\ rev \in ShieldRevs
  /\ pad' = Paddle_addShield(pad)
  /\ sgrant' = 0
  /\ slast' = NoContact
  /\ UNCHANGED notShieldVars

\* The paddle step of a tick for one of the balls in play.
PaddleContact(b) ==
  /\ rev \in ShieldRevs
  /\ LET c == paddleStep(rev, pad, b)
     IN /\ pad' = c.pad
        /\ sgrant' = IF c.fired = "shield" THEN sgrant + 1 ELSE sgrant
        /\ slast' = [x |-> b.x, y |-> b.y, ready |-> shieldReady(pad),
                     fired |-> c.fired, dx |-> c.dx, used |-> c.used,
                     before |-> sgrant]
  /\ UNCHANGED notShieldVars

NextShield ==
  \/ addShield
  \/ \E b \in ShieldBall : PaddleContact(b)

SpecShield == InitShield /\ [][NextShield]_vars

C16_ChargesBoundReflections ==
  /\ (slast.fired = "shield") => slast.used = 1
  /\ sgrant <= MAX_SHIELD_REFLECTIONS
  /\ pad.hasShield => (sgrant = pad.shieldReflections /\ sgrant < MAX_SHIELD_REFLECTIONS)

\* The shield has reflected as many balls as it had charges and is off, and
\* the next ball behind the paddle was not reflected.
C16_Witness ==
  /\ sgrant = MAX_SHIELD_REFLECTIONS
  /\ slast.before = MAX_SHIELD_REFLECTIONS
  /\ behindPaddle(pad, slast)
  /\ slast.y # "off"
  /\ slast.fired # "shield"
  /\ ~pad.hasShield

\* ---------------------------------------------------------- the event bus
\* One signal of the bus.  A listener is its id; what a handler does when it
\* is called (a bus operation, then possibly an error) is an input.
ListenerIds == 1 .. MaxListeners

\* EventBus.subscribe(eventName, callback): create the entry if absent, push.
EventBus_subscribe(ev, id) ==
  [has |-> TRUE, listeners |-> Append(IF ev.has THEN ev.listeners ELSE <<>>, id)]

\* listeners.findIndex(listener => listener.id === listenerId), 0 for -1.
findIndex(ls, id) ==
  IF \E k \in DOMAIN ls : ls[k] = id
    THEN CHOOSE k \in DOMAIN ls : ls[k] = id /\ \A j \in 1..(k - 1) : ls[j] # id
    ELSE 0

\* listeners.splice(index, 1)
splice(ls, index) == SubSeq(ls, 1, index - 1) \o SubSeq(ls, index + 1, Len(ls))

\* EventBus.unsubscribe(eventName, listenerId): remove the listener, delete
\* the entry once it is empty.
EventBus_unsubscribe(ev, id) ==
  IF ~ev.has
    THEN ev
    ELSE LET index == findIndex(ev.listeners, id)
             ls == IF index # 0 THEN splice(ev.listeners, index) ELSE ev.listeners
         IN IF Len(ls) = 0
              THEN [has |-> FALSE, listeners |-> <<>>]
              ELSE [has |-> TRUE, listeners |-> ls]

\* EventBus.clear(eventName)
EventBus_clear(ev) == [has |-> FALSE, listeners |-> <<>>]

\* A delivery that walks the live listener list.
emit_iterated_live(copy, live) == live

\* The list emit() walks: the copy [...listeners] made when it was called.
emit_iterated(copy, live) == copy

\* A delivery without the try/catch: the error leaves emit().
emit_uncaught(threw) == [raised |-> threw, reported |-> 0]

\* The try/catch around each call: the error is logged and goes no further.
emit_caught(threw) == [raised |-> FALSE, reported |-> IF threw THEN 1 ELSE 0]

\* The bus operations a handler may make while it is called.
HandlerOps == {"none", "subscribe", "unsubscribe", "clear"}

\* The bus after a handler's operation.
afterOp(ev, op, id) ==
  CASE op = "subscribe" -> EventBus_subscribe(ev, nextListener)
    [] op = "unsubscribe" -> EventBus_unsubscribe(ev, id)
    [] op = "clear" -> EventBus_clear(ev)
    [] OTHER -> ev

InitBus ==
  /\ rev = "modular"
  /\ InitCollectVars
  /\ InitEffectVars
  /\ InitBallVars
  /\ InitMoreVars
  /\ InitPortalVars
  /\ InitWallVars
  /\ InitShieldVars
  /\ InitBusVars
  /\ InitSpawnVars

\* subscribe() called outside a delivery.
subscribe ==
  /\ rev = "modular"
  /\ delivery.state # "delivering"
  /\ nextListener <= MaxListeners
  /\ events' = EventBus_subscribe(events, nextListener)
  /\ nextListener' = nextListener + 1
  /\ UNCHANGED delivery
  /\ UNCHANGED notBusVars

\* The unsubscribe function of listener id called outside a delivery.
unsubscribe(id) ==
  /\ rev = "modular"
  /\ delivery.state # "delivering"
  /\ id < nextListener
  /\ events' = EventBus_unsubscribe(events, id)
  /\ UNCHANGED <<nextListener, delivery>>
  /\ UNCHANGED notBusVars

\* emit() is called: return at once without an entry, copy the list otherwise.
emit ==
  /\ rev = "modular"
  /\ delivery.state # "delivering"
  /\ delivery.n < MaxPublishes
  /\ delivery' = [state |-> IF events.has /\ events.listeners # <<>> THEN "delivering" ELSE "done",
                  copy |-> IF events.has THEN events.listeners ELSE <<>>,
                  log |-> <<>>, threw |-> {}, reported |-> 0, raised |-> FALSE,
                  n |-> delivery.n + 1]
  /\ UNCHANGED <<events, nextListener>>
  /\ UNCHANGED notBusVars

\* One iteration of emit()'s forEach: the next listener's callback runs,
\* makes its bus operation and returns or throws.
callListener(op, id, throws) ==
  /\ rev = "modular"
  /\ delivery.state = "delivering"
  /\ op = "subscribe" => nextListener <= MaxListeners
  /\ op = "unsubscribe" => id < nextListener
  /\ op # "unsubscribe" => id = 1
  /\ LET walked == emit_iterated(delivery.copy, events.listeners)
         k == Len(delivery.log) + 1
         ev1 == afterOp(events, op, id)
         out == emit_caught(throws)
         walked1 == emit_iterated(delivery.copy, ev1.listeners)
     IN /\ k <= Len(walked)
        /\ events' = ev1
        /\ nextListener' = IF op = "subscribe" THEN nextListener + 1 ELSE nextListener
        /\ delivery' = [delivery EXCEPT
             !.log = Append(@, walked[k]),
             !.threw = IF throws THEN @ \cup {k} ELSE @,
             !.reported = @ + out.reported,
             !.raised = out.raised,
             !.state = IF out.raised \/ k + 1 > Len(walked1) THEN "done" ELSE "delivering"]
  /\ UNCHANGED notBusVars

NextBus ==
  \/ subscribe
  \/ \E id \in ListenerIds : unsubscribe(id)
  \/ emit
  \/ \E op \in HandlerOps, id \in ListenerIds, throws \in BOOLEAN : callListener(op, id, throws)

SpecBus == InitBus /\ [][NextBus]_vars

\* ------------------------------------------------------------ bus: claims
\* C17: the handlers a publish has called so far are the first ones of the
\* list subscribed when it began, in that order, and a finished publish has
\* called all of that list, each subscription once.
C17_DeliversSnapshotInOrder ==
  /\ Len(delivery.log) <= Len(delivery.copy)
  /\ delivery.log = SubSeq(delivery.copy, 1, Len(delivery.log))
  /\ delivery.state = "done" => delivery.log = delivery.copy

\* A finished publish whose handlers unsubscribed a listener that had not yet
\* been called and subscribed a new one: the live list differs from the copy.
C17_Witness ==
  /\ delivery.state = "done"
  /\ Len(delivery.copy) >= 2
  /\ delivery.log = delivery.copy
  /\ \E k \in DOMAIN delivery.copy : findIndex(events.listeners, delivery.copy[k]) = 0
  /\ \E k \in DOMAIN events.listeners : findIndex(delivery.copy, events.listeners[k]) = 0

\* C18: an error thrown by a handler never leaves emit(), and a finished
\* publish has called every listener of its list, those after a throwing one
\* included; each error was reported.
C18_ThrowingHandlerIsolated ==
  /\ ~delivery.raised
  /\ delivery.state = "done" => Len(delivery.log) = Len(delivery.copy)
  /\ delivery.reported = Cardinality(delivery.threw)

\* A finished publish whose first handler threw and whose later handlers
\* were called.
C18_Witness ==
  /\ delivery.state = "done"
  /\ 1 \in delivery.threw
  /\ Len(delivery.copy) >= 2
  /\ Len(delivery.log) = Len(delivery.copy)
  /\ ~delivery.raised

\* ------------------------------------------------------------ spawning
\* The powerups of the field.  With core/Game.js the field is what
\* Game.gameObjects holds (the collision system collects from it, render()
\* draws it) together with the list of the powerup system; a powerup system
\* driven alone has its own list as the field.
SpawnRevs == {"modular", "part_003", "src"}

SpawnIds == 1 .. MaxSpawned

SpawnPos == 0 .. MaxPlace

Live(S, id) == S[id] = "live"

\* The powerups a ball can still collect.
onField(r, S, lst, objs) ==
  {id \in SpawnIds : /\ Live(S, id)
                     /\ \/ id \in SeqToSet(lst)
                        \/ r = "modular" /\ id \in SeqToSet(objs)}

\* The length test of spawnPowerup.
belowCap(lst) == ~(Len(lst) >= MAX_POWERUPS_ON_SCREEN)

UnusedIds(S) == {id \in SpawnIds : S[id] = "none"}

\* spawnPowerup() with its random draw: push a new powerup unless the list
\* is at the cap.  Where the search puts it plays no part in the count.
PowerupSystem_spawnPowerup(S, lst, doSpawn) ==
  IF belowCap(lst) /\ doSpawn /\ UnusedIds(S) # {}
    THEN LET id == CHOOSE i \in UnusedIds(S) : \A j \in UnusedIds(S) : i <= j
         IN [S |-> [S EXCEPT ![id] = "live"], L |-> Append(lst, id), did |-> TRUE]
    ELSE [S |-> S, L |-> lst, did |-> FALSE]

\* Powerup.update() of the powerups in A: their lifetime has passed.
expire(S, A) ==
  [id \in SpawnIds |-> IF id \in A /\ S[id] = "live" THEN "expired" ELSE S[id]]

\* collect() on the powerups in C.
collected(S, C) ==
  [id \in SpawnIds |-> IF id \in C /\ S[id] = "live" THEN "collected" ELSE S[id]]

\* shouldDestroy() / shouldRemove(): collected or expired.
shouldDestroy(S, id) == S[id] \in {"collected", "expired"}

\* part_003 updatePowerups(): forEach over the list with a splice inside,
\* so that the element after a removed one is passed over.
RECURSIVE PowerupSystem_updatePowerups(_, _, _, _)
PowerupSystem_updatePowerups(S, lst, A, i) ==
  IF i > Len(lst)
    THEN [S |-> S, L |-> lst]
    ELSE LET S1 == expire(S, A \cap {lst[i]})
         IN IF shouldDestroy(S1, lst[i])
              THEN PowerupSystem_updatePowerups(S1, SeqRemoveAt(lst, i), A, i + 1)
              ELSE PowerupSystem_updatePowerups(S1, lst, A, i + 1)

\* Game.syncPowerupObjects(): add the powerups of the system that
\* gameObjects does not hold.
Game_syncPowerupObjects(objs, lst) ==
  objs \o SeqFilter(lst, SeqToSet(lst) \ SeqToSet(objs))

\* Game.removeMarkedObjects() on the powerups.
Game_removeMarkedObjects(S, objs) ==
  SeqFilter(objs, {id \in SpawnIds : ~shouldDestroy(S, id)})

\* The objects no list holds any more are garbage.
unreferenced(S, lst, objs) ==
  [id \in SpawnIds |-> IF id \in SeqToSet(lst) \cup SeqToSet(objs) THEN S[id] ELSE NoSpawned]

InitSpawn ==
  /\ rev \in SpawnRevs
  /\ InitCollectVars
  /\ InitEffectVars
  /\ InitBallVars
  /\ InitMoreVars
  /\ InitPortalVars
  /\ InitWallVars
  /\ InitShieldVars
  /\ InitBusVars
  /\ InitSpawnVars

\* Game.update() of core/Game.js: update the objects, update the powerup
\* system (spawn, sweep), sync, resolve the collisions, remove the marked.
GameUpdate(A, C, doSpawn) ==
  /\ rev = "modular"
  /\ LET S1 == expire(spawned, A \cap SeqToSet(gamePowerups))
         n  == Cardinality(onField(rev, S1, sysPowerups, gamePowerups))
         sp == PowerupSystem_spawnPowerup(S1, sysPowerups, doSpawn)
         up == PowerupSystem_updatePowerups(sp.S, sp.L, A, 1)
         g3 == Game_syncPowerupObjects(gamePowerups, up.L)
         S4 == collected(up.S, C \cap SeqToSet(g3))
         g5 == Game_removeMarkedObjects(S4, g3)
     IN /\ spawned' = unreferenced(S4, up.L, g5)
        /\ sysPowerups' = up.L
        /\ gamePowerups' = g5
        /\ spawnLast' = [did |-> sp.did, before |-> n, by |-> "update"]
  /\ UNCHANGED <<placedAt, search>>
  /\ UNCHANGED notSpawnVars

\* PowerupSystem.update() of a system driven alone: spawn, and in part_003
\* the sweep.
SystemUpdate(A, doSpawn) ==
  /\ rev \in {"part_003", "src"}
  /\ LET n  == Cardinality(onField(rev, spawned, sysPowerups, gamePowerups))
         sp == PowerupSystem_spawnPowerup(spawned, sysPowerups, doSpawn)
         up == IF rev = "part_003"
                 THEN PowerupSystem_updatePowerups(sp.S, sp.L, A, 1)
                 ELSE [S |-> sp.S, L |-> sp.L]
     IN /\ spawned' = unreferenced(up.S, up.L, <<>>)
        /\ sysPowerups' = up.L
        /\ spawnLast' = [did |-> sp.did, before |-> n, by |-> "update"]
  /\ UNCHANGED <<placedAt, gamePowerups, search>>
  /\ UNCHANGED notSpawnVars

\* PowerupSystem.checkCollisions(balls): the powerups in C are collected and
\* spliced out of the list.
SystemCheckCollisions(C) ==
  /\ rev \in {"part_003", "src"}
  /\ LET hit == SeqFilter(sysPowerups, {id \in C : spawned[id] # "collected"})
         S1  == [id \in SpawnIds |-> IF id \in SeqToSet(hit) THEN "collected" ELSE spawned[id]]
         L1  == IF rev = "part_003"
                  THEN spliceDescending(sysPowerups, hit)
                  ELSE spliceAscending(sysPowerups,
                                       [k \in 1..Len(hit) |-> IndexOf(sysPowerups, hit[k])])
     IN /\ spawned' = unreferenced(S1, L1, <<>>)
        /\ sysPowerups' = L1
        /\ spawnLast' = [did |-> FALSE, before |-> 0, by |-> "collisions"]
  /\ UNCHANGED <<placedAt, gamePowerups, search>>
  /\ UNCHANGED notSpawnVars

\* Game.resizeCanvas(), on a window resize: the powerup system is cleared.
resizeCanvas ==
  /\ rev = "modular"
  /\ sysPowerups' = <<>>
  /\ spawned' = unreferenced(spawned, <<>>, gamePowerups)
  /\ spawnLast' = [did |-> FALSE, before |-> 0, by |-> "resize"]
  /\ UNCHANGED <<placedAt, gamePowerups, search>>
  /\ UNCHANGED notSpawnVars

\* Game.reset(): gameObjects is rebuilt and the powerup system cleared.
GameReset ==
  /\ rev = "modular"
  /\ sysPowerups' = <<>>
  /\ gamePowerups' = <<>>
  /\ spawned' = [id \in SpawnIds |-> NoSpawned]
  /\ spawnLast' = [did |-> FALSE, before |-> 0, by |-> "reset"]
  /\ UNCHANGED <<placedAt, search>>
  /\ UNCHANGED notSpawnVars

AtMostOne == {A \in SUBSET SpawnIds : Cardinality(A) <= 1}

NextSpawn ==
  \/ \E A \in AtMostOne, C \in AtMostOne, doSpawn \in BOOLEAN : GameUpdate(A, C, doSpawn)
  \/ \E A \in AtMostOne, doSpawn \in BOOLEAN : SystemUpdate(A, doSpawn)
  \/ \E C \in SUBSET SpawnIds : SystemCheckCollisions(C)
  \/ resizeCanvas
  \/ GameReset

SpecSpawn == InitSpawn /\ [][NextSpawn]_vars

SearchRevs == {"part_003", "src"}

\* CONFIG.POWERUP_SIZE * 1.2, in the unit of SpawnPos.
MIN_DISTANCE == 2

\* isPositionOverlapping(x, y): some uncollected powerup of the list is
\* nearer than the minimum distance.
isPositionOverlapping(S, at, lst, x) ==
  \E k \in DOMAIN lst :
    /\ S[lst[k]] # "collected"
    /\ Abs(x - at[lst[k]]) < MIN_DISTANCE

\* A loop that goes on for as long as the candidate overlaps.
searchAgain_unbounded(over, attempts) == over

\* The loop condition: the candidate overlaps and attempts are left.
searchAgain(over, attempts) == over /\ attempts < MAX_ATTEMPTS

\* The powerups already on the field when the search is observed.
InitSearch ==
  /\ rev \in SearchRevs
  /\ InitCollectVars
  /\ InitEffectVars
  /\ InitBallVars
  /\ InitMoreVars
  /\ InitPortalVars
  /\ InitWallVars
  /\ InitShieldVars
  /\ InitBusVars
  /\ \E n \in 0 .. (MAX_POWERUPS_ON_SCREEN - 1) :
       /\ sysPowerups = [k \in 1 .. n |-> k]
       /\ spawned \in [SpawnIds -> {"none", "live", "collected"}]
       /\ \A id \in SpawnIds : spawned[id] = "none" <=> id > n
       /\ placedAt \in [SpawnIds -> SpawnPos]
       /\ \A id \in SpawnIds : id > n => placedAt[id] = 0
  /\ gamePowerups = <<>>
  /\ spawnLast = NoSpawn
  /\ search = NoSearch

\* spawnPowerup() passes its tests and enters the loop.
beginSearch ==
  /\ rev \in SearchRevs
  /\ search.state # "searching"
  /\ belowCap(sysPowerups)
  /\ UnusedIds(spawned) # {}
  /\ search' = [state |-> "searching", attempts |-> 0, x |-> 0, overlapped |-> 0]
  /\ spawnLast' = [did |-> FALSE, before |-> Len(sysPowerups), by |-> "search"]
  /\ UNCHANGED <<spawned, placedAt, sysPowerups, gamePowerups>>
  /\ UNCHANGED notSpawnVars

\* One iteration: draw the candidate x, count the attempt, test the loop
\* condition; when it fails the powerup is created at x and pushed.
tryPosition(x) ==
  /\ rev \in SearchRevs
  /\ search.state = "searching"
  /\ LET attempts == search.attempts + 1
         over == isPositionOverlapping(spawned, placedAt, sysPowerups, x)
         tried == search.overlapped + IF over THEN 1 ELSE 0
         id == CHOOSE i \in UnusedIds(spawned) : \A j \in UnusedIds(spawned) : i <= j
     IN IF searchAgain(over, attempts)
          THEN /\ search' = [state |-> "searching", attempts |-> attempts, x |-> x, overlapped |-> tried]
               /\ UNCHANGED <<spawned, placedAt, sysPowerups, spawnLast>>
          ELSE /\ search' = [state |-> "placed", attempts |-> attempts, x |-> x, overlapped |-> tried]
               /\ spawned' = [spawned EXCEPT ![id] = "live"]
               /\ placedAt' = [placedAt EXCEPT ![id] = x]
               /\ sysPowerups' = Append(sysPowerups, id)
               /\ spawnLast' = [spawnLast EXCEPT !.did = TRUE]
  /\ UNCHANGED gamePowerups
  /\ UNCHANGED notSpawnVars

NextSearch ==
  \/ beginSearch
  \/ \E x \in SpawnPos : tryPosition(x)

SpecSearch == InitSearch /\ [][NextSearch]_vars

\* ---------------------------------------------------- the search: claims
\* C20: the search never makes more than MAX_ATTEMPTS attempts and goes on
\* only while attempts are left; when it ends a powerup has been placed at
\* the last candidate, and if that candidate overlapped, as every one before
\* it, the search had made exactly MAX_ATTEMPTS attempts.
C20_SearchEndsWithinAttempts ==
  /\ search.attempts <= MAX_ATTEMPTS
  /\ search.state = "searching" =>
       /\ search.attempts < MAX_ATTEMPTS
       /\ search.overlapped = search.attempts
  /\ search.state = "placed" =>
       /\ search.attempts >= 1
       /\ spawnLast.did
       /\ Len(sysPowerups) = spawnLast.before + 1
       /\ placedAt[sysPowerups[Len(sysPowerups)]] = search.x
       /\ spawned[sysPowerups[Len(sysPowerups)]] = "live"
       /\ search.overlapped >= search.attempts - 1
       /\ search.overlapped = search.attempts => search.attempts = MAX_ATTEMPTS

\* Every one of the MAX_ATTEMPTS candidates overlapped a powerup of the
\* field, and the powerup was placed all the same.
C20_Witness ==
  /\ search.state = "placed"
  /\ search.attempts = MAX_ATTEMPTS
  /\ search.overlapped = MAX_ATTEMPTS
  /\ sysPowerups # <<>>
  /\ placedAt[sysPowerups[Len(sysPowerups)]] = search.x

\* ------------------------------------------------- hazard expiry: claims
\* C21: with the revisions that sweep their hazards, no wall, portal pair or
\* blackhole whose lifetime had elapsed at the last sweep is still in its
\* collection.
C21_ExpiredHazardsSwept ==
  rev \in SweepRevs =>
    \A k \in HazardKinds : \A i \in DOMAIN hazards[k] :
      now - hazards[k][i].created < Lifetime(k)

\* ================================================= blackholes in the tick
\* "modular": core/Game.js, where a blackhole is a game object as well as an
\* element of PowerupSystem.blackholes; "part_003": the PowerupSystem alone.
GravityRevs == {"modular", "part_003"}

\* Distances of the ball from a hole's centre: consumed (and pulled), pulled
\* only, outside the attraction radius.
Distances == {30, 45, 200}

\* createBlackhole(): this.blackholes.push(new Blackhole(x, y)).
NewHole == [ix |-> 0, synced |-> FALSE, active |-> TRUE]

\* The pull of one applyGravityToBall call on a ball at distance d.
inBand(d) == ~(d > ATTRACTION_RADIUS \/ d < BLACKHOLE_RADIUS)

Pulled(S, o, d) ==
  [S EXCEPT !.b = Blackhole_applyGravityToBall(@, d, 1),
            !.pulls[o] = IF inBand(d) THEN @ + 1 ELSE @]

\* Step 1 of Game.update for the blackholes among the game objects:
\* Blackhole.update(deltaTime, gameState) pulls every ball of gameState.balls,
\* marks a consumed ball for removal, and destroys the hole whose lifetime has
\* elapsed.  S = [b, H, pulls]; D the distances, E the holes whose lifetime has
\* elapsed, both by the hole's index at the start of the tick.
RECURSIVE Blackhole_update(_, _, _, _)
Blackhole_update(S, i, D, E) ==
  IF i > Len(S.H) THEN S
  ELSE IF ~S.H[i].synced THEN Blackhole_update(S, i + 1, D, E)
  ELSE LET o == S.H[i].ix
           g == Pulled(S, o, D[o])
           c == IF Blackhole_checkBallConsumption(D[o])
                  THEN [g EXCEPT !.b.toRemove = TRUE] ELSE g
       IN Blackhole_update(
            [c EXCEPT !.H[i].active = @ /\ o \notin E], i + 1, D, E)

\* PowerupSystem.updateBlackholes(balls): forEach over this.blackholes with
\* update(), applyGravityToBall, checkBallConsumption (ball.disabled = true)
\* and, for a destroyed hole, splice(index, 1) inside the loop.
RECURSIVE PowerupSystem_updateBlackholes(_, _, _, _)
PowerupSystem_updateBlackholes(S, i, D, E) ==
  IF i > Len(S.H) THEN S
  ELSE LET o == S.H[i].ix
           act == S.H[i].active /\ o \notin E
           g == Pulled(S, o, D[o])
           c == IF Blackhole_checkBallConsumption(D[o])
                  THEN [g EXCEPT !.b.disabled = TRUE] ELSE g
       IN PowerupSystem_updateBlackholes(
            [c EXCEPT !.H = IF act THEN @ ELSE SeqRemoveAt(@, i)], i + 1, D, E)

\* Game.syncPowerupObjects(): every blackhole of the system not yet among the
\* game objects is added.
syncBlackholes(H) == [i \in DOMAIN H |-> [H[i] EXCEPT !.synced = TRUE]]

\* Game.removeMarkedObjects() for the holes: a destroyed hole leaves the game
\* objects.
removeMarkedHoles(H) ==
  [i \in DOMAIN H |-> [H[i] EXCEPT !.synced = @ /\ H[i].active, !.ix = i]]

\* A tick that never spawns a ball.
Game_spawnIfNoBalls_never(b) == b

\* Step 7 of Game.update: if (this.getBalls().length === 0) spawnNewBall().
Game_spawnIfNoBalls(b) == IF ~b.inSet THEN NewBall(b.no + 1) ELSE b

InitGravity ==
  /\ rev \in GravityRevs
  /\ InitCollectVars
  /\ InitEffectVars
  /\ InitBallVars
  /\ InitExtVars

\* One Game.update(): the ball and the blackholes are updated (step 1), the
\* PowerupSystem runs its blackholes and sweeps the expired ones (step 2), the
\* holes are synced (step 3), the collisions are detected and resolved, where a
\* collected blackhole powerup creates a hole (step 4), the marked objects are
\* removed (step 5) and a ball is spawned when none is left (step 7).  Each
\* step is logged as it runs.  off: the ball is past a goal line.
GravityTick(D, E, off, create) ==
  /\ rev \in GravityRevs
  /\ tick < MaxGravTicks
  /\ LET H0 == [i \in DOMAIN holes |-> [holes[i] EXCEPT !.ix = i]]
         b1 == Ball_update(ball, off)
         S0 == [b |-> b1, H |-> H0, pulls |-> [i \in DOMAIN holes |-> 0],
                log |-> <<"update">>]
         S1 == IF rev = "modular" THEN Blackhole_update(S0, 1, D, E) ELSE S0
         S2 == [PowerupSystem_updateBlackholes(S1, 1, D, E) EXCEPT !.log = Append(@, "sweep")]
         S3 == IF rev = "modular"
                 THEN [S2 EXCEPT !.H = syncBlackholes(@), !.log = Append(@, "sync")]
                 ELSE S2
         S4 == [S3 EXCEPT !.H = IF create THEN Append(@, NewHole) ELSE @,
                          !.log = Append(@, "collide")]
         S5 == [S4 EXCEPT !.b = removeMarkedObjects(@), !.H = removeMarkedHoles(@),
                          !.log = Append(@, "remove")]
     IN /\ holes' = S5.H
        /\ ball' = Game_spawnIfNoBalls(S5.b)
        /\ goals' = goals + (b1.scored - ball.scored)
        /\ hlast' = [n |-> Len(holes), D |-> D, pulls |-> S2.pulls,
                     dv |-> S2.b.v - b1.v,
                     flagged |-> S2.b.disabled \/ S2.b.toRemove,
                     removed |-> ~S5.b.inSet,
                     wasMarked |-> ball.disabled,
                     scored |-> b1.scored - ball.scored,
                     order |-> S5.log]
  /\ tick' = tick + 1
  /\ UNCHANGED <<baseVars, multVars, typeVars, entVars, sideVars>>

\* The ball is past a goal line only when it is outside every attraction
\* radius: createBlackhole keeps a hole radius + 50 away from the edges.
OffInputs(D) == IF \A i \in DOMAIN D : D[i] > ATTRACTION_RADIUS THEN BOOLEAN ELSE {FALSE}

CreateInputs == IF Len(holes) < MaxHoles THEN BOOLEAN ELSE {FALSE}

NextGravity ==
  \E D \in [DOMAIN holes -> Distances], E \in SUBSET (DOMAIN holes) :
    \E off \in OffInputs(D), create \in CreateInputs : GravityTick(D, E, off, create)

SpecGravity == InitGravity /\ [][NextGravity]_vars

\* ------------------------------------------------- blackholes: claims
\* The pull of one blackhole on a ball at distance d: force * max(0.1,
\* 1 - d / attractionRadius) inside the band, nothing outside it.
PullAt(d) ==
  IF inBand(d)
    THEN Max(ATTRACTION_FORCE \div 10,
             ATTRACTION_FORCE - (ATTRACTION_FORCE * d) \div ATTRACTION_RADIUS)
    ELSE 0

RECURSIVE SumPulls(_, _)
SumPulls(D, i) == IF i = 0 THEN 0 ELSE PullAt(D[i]) + SumPulls(D, i - 1)

\* C22: a ball within core radius + ball radius of a blackhole is marked
\* consumed in that tick; a marked ball is removed from the entity set in that
\* tick or is disabled and removed in the next one, and it never scores.
C22_ConsumedBallRemoved ==
  /\ (\E i \in 1 .. hlast.n : Blackhole_checkBallConsumption(hlast.D[i])) => hlast.flagged
  /\ hlast.flagged => (hlast.removed \/ ball.disabled)
  /\ hlast.wasMarked => (hlast.removed /\ hlast.scored = 0)

\* C23: in a tick every blackhole changes the velocity of a ball inside its
\* attraction band exactly once, by force * max(0.1, 1 - distance /
\* attractionRadius) towards the hole, and not at all outside the band.
C23_OnePullPerHoleInBand ==
  /\ \A i \in 1 .. hlast.n : hlast.pulls[i] = (IF inBand(hlast.D[i]) THEN 1 ELSE 0)
  /\ hlast.dv = SumPulls(hlast.D, hlast.n)

\* ------------------------------------------------- collection and expiry: claims
\* C26: no powerup is both collected and expired: an expired powerup is not
\* collected, and a collected powerup is not expired afterwards.
C26_NeverCollectedAndExpired ==
  \A id \in PowId : ~(pw[id].collected /\ pw[id].expired)

\* ------------------------------------------------- tick order: claims
\* The place of a step in the last tick's log (0 when it did not run).
StepAt(name) ==
  IF \E i \in DOMAIN hlast.order : hlast.order[i] = name
    THEN CHOOSE i \in DOMAIN hlast.order : hlast.order[i] = name
    ELSE 0

\* C24: in every tick the collisions are detected and resolved before the
\* expired effects, hazards and powerups are swept, and the flagged entities
\* are removed after both.
C24_CollideSweepRemove ==
  hlast.order # <<>> =>
    /\ 0 < StepAt("collide")
    /\ StepAt("collide") < StepAt("sweep")
    /\ StepAt("sweep") < StepAt("remove")

\* ================================================= effect multipliers
PADDLE_BIGGER == 150
PADDLE_SMALLER == 70
BALL_BIGGER == 150
BALL_SMALLER == 70

SizeTypes == {"bigger_ball", "smaller_ball"}

SpeedTypes == {"speed_up", "speed_down"}

HeightTypes == {"bigger_paddle", "smaller_paddle"}

\* The product of the ballSize multipliers of the effects (per cent).
sizeMultiplier(effs) ==
  ((IF "bigger_ball" \in effs THEN BALL_BIGGER ELSE 100)
     * (IF "smaller_ball" \in effs THEN BALL_SMALLER ELSE 100)) \div 100

\* The product of the paddleHeight multipliers of the effects (per cent).
heightMultiplier(effs) ==
  ((IF "bigger_paddle" \in effs THEN PADDLE_BIGGER ELSE 100)
     * (IF "smaller_paddle" \in effs THEN PADDLE_SMALLER ELSE 100)) \div 100

\* Paddle.applyEffects(): currentHeight = baseHeight * heightMultiplier.
Paddle_applyEffects(p) == [p EXCEPT !.height = heightMultiplier(p.effs)]

\* Paddle.addEffect(type, effect): effects.set(type, ...), nothing else.
Paddle_addEffect(p, type) == [p EXCEPT !.effs = addEffect(@, type)]

\* Paddle.removeEffect(type): effects.delete(type), nothing else.
Paddle_removeEffect(p, type) == [p EXCEPT !.effs = removeEffect(@, type)]

InitMult ==
  /\ rev = "modular"
  /\ InitCollectVars
  /\ InitEffectVars
  /\ InitBallVars
  /\ InitExtVars

\* applyTimedEffect calls ball.addEffect; Game handles "ball:effectRemoved" with
\* ball.removeEffect.  Both end with applyEffects(), which also sets
\* radius = baseRadius * sizeMultiplier.
ballEffectApplied(type) ==
  /\ ball' = Ball_addEffect(ball, type)
  /\ bsize' = sizeMultiplier(ball'.effs)
  /\ UNCHANGED <<baseVars, holeVars, typeVars, entVars, sideVars, tick, goals, paddles>>

ballEffectRemoved(type) ==
  /\ type \in ball.effs
  /\ ball' = Ball_removeEffect(ball, type)
  /\ bsize' = sizeMultiplier(ball'.effs)
  /\ UNCHANGED <<baseVars, holeVars, typeVars, entVars, sideVars, tick, goals, paddles>>

\* "paddle:effectApplied" / "paddle:effectRemoved" handled by Game.
paddleEffectApplied(sd, type) ==
  /\ paddles' = [paddles EXCEPT ![sd] = Paddle_addEffect(@, type)]
  /\ UNCHANGED <<baseVars, holeVars, typeVars, entVars, sideVars, ballVars, bsize>>

paddleEffectRemoved(sd, type) ==
  /\ type \in paddles[sd].effs
  /\ paddles' = [paddles EXCEPT ![sd] = Paddle_removeEffect(@, type)]
  /\ UNCHANGED <<baseVars, holeVars, typeVars, entVars, sideVars, ballVars, bsize>>

\* Step 1 of Game.update for the paddles: Paddle.update() calls applyEffects().
Paddle_update ==
  /\ paddles' = [sd \in Sides |-> Paddle_applyEffects(paddles[sd])]
  /\ UNCHANGED <<baseVars, holeVars, typeVars, entVars, sideVars, ballVars, bsize>>

NextMult ==
  \/ \E type \in SizeTypes \cup SpeedTypes : ballEffectApplied(type)
  \/ \E type \in SizeTypes \cup SpeedTypes : ballEffectRemoved(type)
  \/ \E sd \in Sides, type \in HeightTypes : paddleEffectApplied(sd, type)
  \/ \E sd \in Sides, type \in HeightTypes : paddleEffectRemoved(sd, type)
  \/ Paddle_update

SpecMult == InitMult /\ [][NextMult]_vars

\* ------------------------------------------------- effect multipliers: claims
\* C25: after every addition or removal of an effect the ball's size and speed
\* multipliers and each paddle's height multiplier equal the product of the
\* multipliers of the target's active effects of that kind (1 when none).
C25_MultipliersAreProducts ==
  /\ bsize = sizeMultiplier(ball.effs)
  /\ ball.mult = speedMultiplier(ball.effs)
  /\ \A sd \in Sides : paddles[sd].height = heightMultiplier(paddles[sd].effs)

\* ================================================= unknown powerup types
MaxActivations == 3
SCORE_BONUS == 5

\* Types with an entry in POWERUP_CONFIG (one per kind of effect) and one
\* without.
KnownTypes == {"score_bonus", "blackhole", "shield", "bigger_paddle", "speed_up"}

Types == KnownTypes \cup {"mystery"}

\* POWERUP_CONFIG[type].
POWERUP_CONFIG(type) ==
  CASE type = "score_bonus"   -> [defined |-> TRUE, effect |-> [NoEffect EXCEPT !.scoreBonus = SCORE_BONUS]]
    [] type = "blackhole"     -> [defined |-> TRUE, effect |-> [NoEffect EXCEPT !.blackhole = TRUE]]
    [] type = "shield"        -> [defined |-> TRUE, effect |-> [NoEffect EXCEPT !.shield = TRUE]]
    [] type = "bigger_paddle" -> [defined |-> TRUE, effect |-> [NoEffect EXCEPT !.paddleHeight = PADDLE_BIGGER,
                                                                           !.duration = EFFECT_DURATION]]
    [] type = "speed_up"      -> [defined |-> TRUE, effect |-> [NoEffect EXCEPT !.ballSpeed = SPEED_UP,
                                                                           !.duration = EFFECT_DURATION]]
    [] OTHER                  -> Undefined

\* A constructor that keeps whatever the lookup returns.
Powerup_config_noFallback(type) == POWERUP_CONFIG(type)

\* Powerup constructor: this.config = POWERUP_CONFIG[type] || { emoji, label,
\* effect: {} }.
Powerup_config(type) ==
  IF POWERUP_CONFIG(type).defined THEN POWERUP_CONFIG(type)
  ELSE [defined |-> TRUE, effect |-> NoEffect]

\* new Powerup(x, y, type).
Powerup_constructor(type) == [st |-> "field", type |-> type, config |-> Powerup_config(type)]

\* PowerupFactory.createPowerup(type, x, y): null (and a warning) for a type
\* without a class, else an object of the class.
PowerupFactory_createPowerup(type) == IF type \in KnownTypes THEN type ELSE "null"

\* A random choice among all configured types, whatever the settings say.
getRandomPowerupType_anyKey(en) == {type \in KnownTypes : POWERUP_CONFIG(type).defined}

\* getRandomPowerupType(): the enabled types that have a config entry.
getRandomPowerupType(en) == {type \in en : POWERUP_CONFIG(type).defined}

\* applyTimedEffect(type, effect, ball): the effect goes to the ball or to a
\* paddle and into activeEffects; an effect of neither kind changes nothing.
PowerupSystem_applyTimedEffect(W, type, effect) ==
  IF effect.ballSpeed # 0
    THEN [W EXCEPT !.beffs = addEffect(@, type), !.registry = @ + 1]
  ELSE IF effect.paddleHeight # 0
    THEN [W EXCEPT !.peffs = addEffect(@, type), !.registry = @ + 1]
  ELSE W

\* applyPowerupEffect(powerup, ball): reads powerup.config.effect (a TypeError
\* when config is undefined), applies the immediate effects whose flag is set,
\* then the timed effect when effect.duration > 0.
applyPowerupEffect(W, p) ==
  IF ~p.config.defined THEN [W EXCEPT !.threw = TRUE]
  ELSE LET effect == p.config.effect
           W1 == IF effect.scoreBonus # 0 THEN [W EXCEPT !.score = @ + effect.scoreBonus] ELSE W
           W2 == IF effect.shield THEN [W1 EXCEPT !.shield = TRUE] ELSE W1
           W3 == IF effect.blackhole THEN [W2 EXCEPT !.hazards = @ + 1] ELSE W2
       IN IF effect.duration > 0 THEN PowerupSystem_applyTimedEffect(W3, p.type, effect) ELSE W3

InitTypes ==
  /\ rev = "part_003"
  /\ InitCollectVars
  /\ InitEffectVars
  /\ InitBallVars
  /\ InitPortalVars
  /\ InitWallVars
  /\ InitShieldVars
  /\ InitBusVars
  /\ InitSpawnVars
  /\ InitHoleVars
  /\ InitMultVars
  /\ InitEntVars
  /\ InitSideVars
  /\ InitLateVars
  /\ pup = NoPup
  /\ world = NewWorld
  /\ ulast = NoActivation
  /\ enabled = KnownTypes
  /\ powerupsEnabled = TRUE

notTypeVars == <<baseVars, ballVars, holeVars, multVars, entVars, sideVars>>

\* What a caller may pass as settings: powerupsEnabled true, false or absent,
\* enabledPowerups an array (empty or not) or absent.
SettingsInputs ==
  [powerupsEnabled : {"true", "false", "undefined"},
   enabledPowerups : {[defined |-> FALSE, list |-> {}],
                      [defined |-> TRUE, list |-> {}],
                      [defined |-> TRUE, list |-> {"mystery"}],
                      [defined |-> TRUE, list |-> {"shield"}],
                      [defined |-> TRUE, list |-> {"mystery", "score_bonus"}]}]

\* setPowerupSettings(settings): powerupsEnabled is settings.powerupsEnabled
\* !== false; enabledPowerups is settings.enabledPowerups, or every key of
\* POWERUP_CONFIG when that is absent (an empty array is kept).
PowerupSystem_setPowerupSettings(settings) ==
  [powerupsEnabled |-> settings.powerupsEnabled # "false",
   enabledPowerups |-> IF settings.enabledPowerups.defined
                         THEN settings.enabledPowerups.list
                         ELSE KnownTypes]

\* The first check of spawnPowerup(): it returns when powerups are disabled or
\* the enabled list is empty.
PowerupSystem_maySpawn(on, en) == on /\ en # {}

setPowerupSettings(settings) ==
  /\ powerupsEnabled' = PowerupSystem_setPowerupSettings(settings).powerupsEnabled
  /\ enabled' = PowerupSystem_setPowerupSettings(settings).enabledPowerups
  /\ ulast' = [kind |-> "settings", type |-> "none", result |-> "none", before |-> world]
  /\ UNCHANGED <<pup, world, notTypeVars>>

\* spawnPowerup(): a powerup of one of the types getRandomPowerupType() can
\* return; no spawn when there is none.
spawnTyped(type) ==
  /\ pup.st = "none"
  /\ PowerupSystem_maySpawn(powerupsEnabled, enabled)
  /\ type \in getRandomPowerupType(enabled)
  /\ pup' = Powerup_constructor(type)
  /\ ulast' = [kind |-> "spawn", type |-> type, result |-> type, before |-> world]
  /\ UNCHANGED <<world, enabled, powerupsEnabled, notTypeVars>>

\* new Powerup(x, y, type) with a type of the caller's choice.
newPowerup(type) ==
  /\ pup.st = "none"
  /\ pup' = Powerup_constructor(type)
  /\ ulast' = [kind |-> "new", type |-> type, result |-> type, before |-> world]
  /\ UNCHANGED <<world, enabled, powerupsEnabled, notTypeVars>>

\* PowerupFactory.createPowerup(type, x, y).
createPowerup(type) ==
  /\ ulast' = [kind |-> "factory", type |-> type,
               result |-> PowerupFactory_createPowerup(type), before |-> world]
  /\ UNCHANGED <<pup, world, enabled, powerupsEnabled, notTypeVars>>

\* "powerup:collected" for the powerup: applyPowerupEffect(powerup, ball).
collectTyped ==
  /\ pup.st = "field"
  /\ world.registry + world.hazards < MaxActivations
  /\ world.score < MaxActivations * SCORE_BONUS
  /\ world' = applyPowerupEffect(world, pup)
  /\ pup' = NoPup
  /\ ulast' = [kind |-> "collect", type |-> pup.type, result |-> pup.type, before |-> world]
  /\ UNCHANGED <<enabled, powerupsEnabled, notTypeVars>>

NextTypes ==
  \/ \E type \in Types : spawnTyped(type)
  \/ \E type \in Types : newPowerup(type)
  \/ \E type \in Types : createPowerup(type)
  \/ collectTyped
  \/ \E settings \in SettingsInputs : setPowerupSettings(settings)

SpecTypes == InitTypes /\ [][NextTypes]_vars

\* ------------------------------------------------- unknown types: claims
\* C27: creating or activating a powerup whose type has no configuration never
\* throws; the powerup gets the neutral configuration (the factory makes none)
\* and its collection changes no score, ball, paddle, hazard or registry state.
C27_UnknownTypeIsNeutral ==
  /\ ~world.threw
  /\ (pup.st = "field" /\ pup.type \notin KnownTypes) => pup.config.effect = NoEffect
  /\ (ulast.kind = "factory" /\ ulast.type \notin KnownTypes) => ulast.result = "null"
  /\ (ulast.kind = "collect" /\ ulast.type \notin KnownTypes) => world = ulast.before
  /\ (ulast.kind = "spawn") => ulast.type \in KnownTypes

\* A powerup of the unknown type was collected in a game that already had a
\* score, a hazard and a registry entry to lose.
C27_Witness ==
  /\ ulast.kind = "collect"
  /\ ulast.type = "mystery"
  /\ world.score > 0 /\ world.hazards > 0 /\ world.registry > 0

\* ------------------------------------------------- ball supply: claims
\* C28: at the end of every tick the entity set contains a ball: when the last
\* ball is removed in a tick (after scoring or after being consumed by a
\* blackhole), a new ball is created in the same tick.
C28_AlwaysOneBall ==
  /\ ball.inSet
  /\ hlast.removed => (~ball.disabled /\ ~ball.toRemove /\ ball.no > 0)

\* The only ball was removed in the tick: one that had scored, and one that a
\* blackhole had consumed.
C28_Witness ==
  /\ hlast.removed
  /\ ball.inSet
  /\ ball.no = 2
  /\ goals = 1

\* ================================================= entity set and signals
MaxEnts == 3

CollectedTypes == {"clone_ball", "blackhole", "score_bonus"}

\* A change of a live collection, at the current depth of emit() calls.
Changed(S, what) == [S EXCEPT !.changes = Append(@, [what |-> what, depth |-> S.depth])]

\* Game.addGameObject(obj) for a ball.
Game_addGameObject(S) == Changed([S EXCEPT !.e.balls = @ + 1], "gameObjects.push")

\* EventBus.emit: the handler runs inside the emit() call.  S1 is the state
\* the handlers leave, run one level deeper.
Deeper(S) == [S EXCEPT !.depth = @ + 1]

Shallower(S) == [S EXCEPT !.depth = @ - 1]

\* Game's handler of "game:ballSpawned": this.addGameObject(data.ball).
Game_onBallSpawned(S) == Game_addGameObject(S)

\* applyCloneBall(ball): eventBus.emit("game:ballSpawned", { ball: clone }).
applyCloneBall(S) == Shallower(Game_onBallSpawned(Deeper(S)))

\* applyBlackhole() -> createBlackhole(): this.blackholes.push(...).
applyBlackhole(S) == Changed([S EXCEPT !.e.blackholes = @ + 1], "blackholes.push")

\* PowerupSystem's handler of "powerup:collected": applyPowerupEffect.
PowerupSystem_onCollected(S, type) ==
  CASE type = "clone_ball" -> IF S.e.balls < MaxEnts THEN applyCloneBall(S) ELSE S
    [] type = "blackhole"  -> IF S.e.blackholes < MaxEnts THEN applyBlackhole(S) ELSE S
    [] OTHER               -> S

\* CollisionSystem.resolveBallPowerupCollision: eventBus.emit("powerup:collected").
CollisionSystem_resolve(S, type) ==
  IF type = "none" THEN S ELSE Shallower(PowerupSystem_onCollected(Deeper(S), type))

\* Steps of Game.update run by the orchestrator itself.
\* Step 1: a ball that scored in the previous tick marks itself for removal.
updateObjects(S, scored) ==
  IF scored /\ S.e.marked < S.e.balls THEN [S EXCEPT !.e.marked = @ + 1] ELSE S

\* Step 2: PowerupSystem.update() splices an expired blackhole.
sweepBlackholes(S, lapsed) ==
  IF lapsed /\ S.e.blackholes > 0
    THEN Changed([S EXCEPT !.e.blackholes = @ - 1,
                           !.e.synced = IF @ > S.e.blackholes - 1 THEN @ - 1 ELSE @],
                 "blackholes.splice")
    ELSE S

\* Step 3: syncPowerupObjects() adds the blackholes not yet among gameObjects.
syncObjects(S) ==
  IF S.e.synced < S.e.blackholes
    THEN Changed([S EXCEPT !.e.synced = S.e.blackholes], "gameObjects.push")
    ELSE S

\* Step 5: removeMarkedObjects().
removeMarked(S) ==
  IF S.e.marked > 0
    THEN Changed([S EXCEPT !.e.balls = @ - S.e.marked, !.e.marked = 0], "gameObjects.filter")
    ELSE S

\* Step 7: spawnNewBall() when no ball is left.
spawnIfNone(S) == IF S.e.balls = 0 THEN Game_addGameObject(S) ELSE S

InitEnts ==
  /\ rev = "modular"
  /\ InitCollectVars
  /\ InitEffectVars
  /\ InitBallVars
  /\ InitExtVars

\* One Game.update(): scored, lapsed and type say what the tick meets (a ball
\* that scored, a blackhole at the end of its lifetime, a collected powerup).
EntityTick(scored, lapsed, type) ==
  /\ LET S0 == [e |-> ents, changes |-> <<>>, depth |-> 0]
         S == spawnIfNone(removeMarked(CollisionSystem_resolve(
                syncObjects(sweepBlackholes(updateObjects(S0, scored), lapsed)), type)))
     IN /\ ents' = S.e
        /\ changes' = S.changes
  /\ UNCHANGED <<baseVars, ballVars, holeVars, multVars, typeVars, sideVars>>

NextEnts ==
  \E scored \in BOOLEAN, lapsed \in BOOLEAN, type \in CollectedTypes \cup {"none"} :
    EntityTick(scored, lapsed, type)

SpecEnts == InitEnts /\ [][NextEnts]_vars

\* ------------------------------------------------- entity set: claims
\* C29: the live entity collections are changed only by the orchestrator's own
\* tick steps: no change is made by a handler running inside a signal
\* delivery.
C29_NoChangeDuringDelivery ==
  \A i \in DOMAIN changes : changes[i].depth = 0

\* ================================================= paddle effects by side
PaddleFrame == 3000
MaxPaddleClock == 15000
MaxCollects == 1

\* Ball.handlePaddleCollision(paddle): this.lastHitBy = paddle.side.
Ball_handlePaddleCollision(sd) == sd

\* applyTimedEffect, paddle branch: the side is ball.lastHitBy, or a random one
\* when the ball has not hit a paddle yet.
paddleSide(hitBy, random) == IF hitBy = "null" THEN random ELSE hitBy

\* cleanupExpiredEffects() -> removeEffect(id) -> "paddle:effectRemoved" ->
\* paddle.removeEffect(type), for every entry with now - startTime > duration.
expirePaddleEffects(P, fx, t) ==
  [sd \in Sides |->
     [P[sd] EXCEPT !.effs = @ \ {e.type : e \in {x \in fx : x.side = sd /\ t - x.startTime > EFFECT_DURATION}}]]

InitSides ==
  /\ rev = "modular"
  /\ InitCollectVars
  /\ InitEffectVars
  /\ InitBallVars
  /\ InitExtVars

\* One Game.update() at Date.now() = pnow + PaddleFrame: the paddles update
\* (applyEffects), the PowerupSystem sweeps the expired effects, and in the
\* collision step the ball may hit a paddle or collect a paddle powerup.
\* hit: "none" or the side of the paddle hit; type: "none" or the powerup type;
\* random: the side Math.random() picks.
PaddleTick(hit, type, random) ==
  /\ pnow + PaddleFrame <= MaxPaddleClock
  /\ LET t  == pnow + PaddleFrame
         P1 == [sd \in Sides |-> Paddle_applyEffects(paddles[sd])]
         P2 == expirePaddleEffects(P1, pfx, t)
         fx2 == {x \in pfx : ~(t - x.startTime > EFFECT_DURATION)}
         hb == IF hit = "none" THEN lastHitBy ELSE Ball_handlePaddleCollision(hit)
         sd == paddleSide(hb, random)
         od == IF sd = "left" THEN "right" ELSE "left"
     IN /\ pnow' = t
        /\ lastHitBy' = hb
        /\ IF type = "none"
             THEN /\ paddles' = P2
                  /\ pfx' = fx2
                  /\ pacts' = pacts
             ELSE /\ paddles' = [P2 EXCEPT ![sd] = Paddle_addEffect(@, type)]
                  /\ pfx' = fx2 \cup {[type |-> type, side |-> sd, startTime |-> t]}
                  /\ pacts' = Append(pacts, [type |-> type, side |-> sd, t |-> t, hitBy |-> hb,
                                             prev |-> P2[sd].height, other |-> P2[od].height])
  /\ UNCHANGED <<baseVars, ballVars, holeVars, typeVars, entVars, bsize>>

\* A tick has either a paddle hit or a collection; a powerup is collected while
\* the bound on collections allows.
CollectInputs == IF Len(pacts) < MaxCollects THEN HeightTypes \cup {"none"} ELSE {"none"}

NextSides ==
  \/ \E hit \in Sides \cup {"none"} : PaddleTick(hit, "none", "left")
  \/ \E type \in CollectInputs, random \in Sides : PaddleTick("none", type, random)

SpecSides == InitSides /\ [][NextSides]_vars

\* ------------------------------------------------- paddle effects: claims
Other(sd) == IF sd = "left" THEN "right" ELSE "left"

\* C30: a paddle-height effect goes to the paddle on the side that last hit
\* the collecting ball; that paddle's height multiplier is raised from the
\* collection until the duration has elapsed and is back at its previous value
\* from then on; the other paddle's height does not change.
C30_RaisedOnHitSideOnly ==
  \A i \in DOMAIN pacts :
    LET a == pacts[i]
    IN /\ a.hitBy # "null" => a.side = a.hitBy
       /\ pnow < a.t + EFFECT_DURATION =>
            paddles[a.side].height = (a.prev * heightMultiplier({a.type})) \div 100
       /\ pnow >= a.t + EFFECT_DURATION => paddles[a.side].height = a.prev
       /\ paddles[Other(a.side)].height = a.other

\* ------------------------------------------------- collision pass and list: claims
\* A collision pass: PowerupSystem.checkCollisions, or a Game.update in which
\* nothing is spawned and no lifetime elapses.
CollisionPass ==
  \/ \E ov \in OverlapInputs : PowerupSystem_checkCollisions(ov)
  \/ \E ov \in OverlapInputs : Game_update({}, FALSE, ov)

\* C31: after a collision pass the on-field list holds exactly the powerups
\* that were on it before the pass and were not collected, in their order.
C31_ListKeepsUncollected ==
  [][CollisionPass => field' = SeqFilter(field, {id \in PowId : ~pw'[id].collected})]_vars


\* ------------------------------------------------- powerup settings: claims
\* C32: every spawned powerup has a type from the enabled subset, and no
\* powerup is spawned while powerups are disabled or the enabled subset is
\* empty.
C32_SpawnsOnlyEnabledTypes ==
  ulast.kind = "spawn" =>
    /\ powerupsEnabled
    /\ enabled # {}
    /\ ulast.type \in enabled
    /\ pup.st = "field" /\ pup.type = ulast.type

\* A powerup was spawned after the settings were narrowed to a strict subset
\* of the configured types.
C32_Witness ==
  /\ ulast.kind = "spawn"
  /\ enabled # {} /\ enabled # KnownTypes
  /\ KnownTypes \ enabled # {}

\* ================================================= the AI paddle
\* Lengths and speeds of this section are in tenths of a pixel.
MaxAiTicks == 2
CANVAS_HEIGHT == 600
PADDLE_HEIGHT == 100
PADDLE_SPEED == 8
\* 0.6, 0.8 and 0.9, in tenths.
AI_MAX_SPEED_MULTIPLIER == 6
AI_ACCELERATION == 8
AI_DECELERATION == 9

\* this.aiMaxSpeed = CONFIG.PADDLE_SPEED * CONFIG.AI_MAX_SPEED_MULTIPLIER.
aiMaxSpeed == PADDLE_SPEED * AI_MAX_SPEED_MULTIPLIER

\* The largest micro-adjustment, (Math.random() - 0.5) * 2, and the largest
\* idle movement, (Math.random() - 0.5) * 3.
MicroMovement == 10
IdleMovement == 15

Math_sign(x) == IF x < 0 THEN -1 ELSE IF x > 0 THEN 1 ELSE 0

\* v * num / den, rounded towards zero.
Scaled(v, num, den) == IF v >= 0 THEN (v * num) \div den ELSE -(((-v) * num) \div den)

Clamp(lo, hi, x) == Max(lo, Min(hi, x))

\* currentHeight = baseHeight * heightMultiplier.
currentHeight(p) == (PADDLE_HEIGHT * p.height) \div 10

\* Paddle.moveToTargetAI: more than 5 px off the target the velocity gains the
\* acceleration towards it, is limited to aiMaxSpeed and moves the paddle, with
\* an occasional micro-adjustment; within 5 px the velocity decays and the
\* paddle makes an occasional idle movement.
Paddle_moveToTargetAI(p, target, micro, idle) ==
  LET distanceToTarget == target - p.y
      v == Clamp(-aiMaxSpeed, aiMaxSpeed, p.vel + Math_sign(distanceToTarget) * AI_ACCELERATION)
  IN IF Abs(distanceToTarget) > 50
       THEN [p EXCEPT !.vel = v, !.y = p.y + v + micro]
       ELSE [p EXCEPT !.vel = Scaled(p.vel, AI_DECELERATION, 10), !.y = p.y + idle]

\* Paddle.returnToCenterAI: at half the acceleration and half the speed limit.
Paddle_returnToCenterAI(p) ==
  LET centerY == (CANVAS_HEIGHT * 10) \div 2 - currentHeight(p) \div 2
      distanceToCenter == centerY - p.y
      v == Clamp(-(aiMaxSpeed \div 2), aiMaxSpeed \div 2,
                 p.vel + Math_sign(distanceToCenter) * (AI_ACCELERATION \div 2))
  IN IF Abs(distanceToCenter) > 100
       THEN [p EXCEPT !.vel = v, !.y = p.y + v]
       ELSE [p EXCEPT !.vel = Scaled(p.vel, AI_DECELERATION, 10)]

\* What one frame gives the AI: whether there is a ball, whether one approaches
\* and where trackBallAI puts the target, the draws of the random movements and
\* of the reaction delay.
AiInputs ==
  [balls : {"none", "approaching", "leaving"},
   target : {0, 5000},
   micro : {-MicroMovement, 0, MicroMovement},
   idle : {-IdleMovement, 0, IdleMovement},
   reaction : {0, 2}]

\* Paddle.updateAI(gameState).
Paddle_updateAI(p, in) ==
  IF in.balls = "none" THEN p
  ELSE IF p.delay > 0 THEN [p EXCEPT !.delay = @ - 1]
  ELSE LET q == IF in.balls = "approaching"
                  THEN [Paddle_moveToTargetAI(p, in.target, in.micro, in.idle)
                          EXCEPT !.delay = in.reaction]
                  ELSE Paddle_returnToCenterAI(p)
       IN [q EXCEPT !.vel = Scaled(@, 95, 100)]

\* Paddle.update in "ai" mode: remember the position, updateAI, applyEffects,
\* keep the paddle between 0 and CANVAS_HEIGHT - currentHeight.
Paddle_updateInAiMode(p, in) ==
  LET q == Paddle_applyEffects(Paddle_updateAI([p EXCEPT !.prev = p.y, !.hprev = p.height], in))
  IN [q EXCEPT !.y = Clamp(0, CANVAS_HEIGHT * 10 - currentHeight(q), q.y), !.n = p.n + 1]

\* A paddle somewhere on its track, at rest or at the velocity it has one
\* frame after reaching the speed limit.
InitAi ==
  /\ InitNotLate
  /\ InitObusVars
  /\ InitScoreVars
  /\ InitIballVars
  /\ InitFxVars
  /\ InitMwVars
  /\ InitLoopVars
  /\ \E y0 \in {0, 2500, 5000}, v0 \in {-Scaled(aiMaxSpeed, 95, 100), 0, Scaled(aiMaxSpeed, 95, 100)} :
       ai = [y |-> y0, height |-> 100, effs |-> {}, vel |-> v0, delay |-> 0,
             prev |-> y0, hprev |-> 100, n |-> 0]

\* One frame of an AI paddle.
aiUpdate(in) ==
  /\ ai.n < MaxAiTicks
  /\ ai' = Paddle_updateInAiMode(ai, in)
  /\ UNCHANGED notAiVars

\* A collected powerup puts a height effect on the paddle between two frames.
aiAddEffect(type) ==
  /\ type \notin ai.effs
  /\ ai' = Paddle_addEffect(ai, type)
  /\ UNCHANGED notAiVars

\* The effect expires between two frames.
aiRemoveEffect(type) ==
  /\ type \in ai.effs
  /\ ai' = Paddle_removeEffect(ai, type)
  /\ UNCHANGED notAiVars

NextAi ==
  \/ \E in \in AiInputs : aiUpdate(in)
  \/ \E type \in HeightTypes : aiAddEffect(type)
  \/ \E type \in HeightTypes : aiRemoveEffect(type)

SpecAi == InitAi /\ [][NextAi]_vars

\* ------------------------------------------------- the AI paddle: claims
\* C33: in any single tick the position of an AI-controlled paddle changes by
\* no more than its maximum AI speed plus the bounded jitter.
C33_AiStepBounded ==
  ai.n > 0 => Abs(ai.y - ai.prev) <= aiMaxSpeed + IdleMovement

\* ================================================= moving walls
MaxWallUpdates == 3
CANVAS_WIDTH == 800

\* new Wall(x, y, width, height, config): the movement bounds are minX =
\* width / 2, maxX = CANVAS_WIDTH - width / 2, minY = height / 2, maxY =
\* CANVAS_HEIGHT - height / 2.
Wall_minX(w) == w.width \div 2

Wall_maxX(w) == CANVAS_WIDTH - w.width \div 2

Wall_minY(w) == w.height \div 2

Wall_maxY(w) == CANVAS_HEIGHT - w.height \div 2

\* The walls applyRandomWall() can make: x below CANVAS_WIDTH - 100, y below
\* CANVAS_HEIGHT - 100, width 10 to 40, height 50 to 150, moving along an axis
\* (linear) or about the base position (oscillating, range 50 to 150).
NewWalls ==
  {[x |-> x, y |-> y, width |-> wd, height |-> ht, baseX |-> x, baseY |-> y,
    pattern |-> pt, speed |-> sp, range |-> IF pt = "oscillating" THEN rg ELSE 0,
    dir |-> d, n |-> 0] :
     x \in {0, 690}, y \in {0, 490}, wd \in {10, 40}, ht \in {50, 150},
     pt \in {"linear", "oscillating"}, sp \in {1, 3}, rg \in {50, 150},
     d \in {[x |-> 1, y |-> 0], [x |-> 0, y |-> 1]}}

\* Wall.updateLinearMovement(deltaTime): a step along movementDirection, which
\* turns round on an axis once the position is at or past a bound of it.
Wall_updateLinearMovement(w, deltaTime) ==
  LET x1 == w.x + w.dir.x * w.speed * (deltaTime \div 16)
      y1 == w.y + w.dir.y * w.speed * (deltaTime \div 16)
      dx == IF x1 <= Wall_minX(w) \/ x1 >= Wall_maxX(w) THEN -w.dir.x ELSE w.dir.x
      dy == IF y1 <= Wall_minY(w) \/ y1 >= Wall_maxY(w) THEN -w.dir.y ELSE w.dir.y
  IN [w EXCEPT !.x = x1, !.y = y1, !.dir = [x |-> dx, y |-> dy]]

\* Wall.updateOscillatingMovement(time): the base position plus sin(...) *
\* oscillationRange along the larger component of movementDirection; sine is
\* the value the clock gives, -1, 0 or 1 here.
Wall_updateOscillatingMovement(w, sine) ==
  IF Abs(w.dir.x) > Abs(w.dir.y)
    THEN [w EXCEPT !.x = w.baseX + sine * w.range * w.dir.x, !.y = w.baseY]
    ELSE [w EXCEPT !.x = w.baseX, !.y = w.baseY + sine * w.range * w.dir.y]

\* Wall.updateMovement(deltaTime): the pattern's movement, then x and y are
\* kept within the movement bounds.
Wall_updateMovement(w, deltaTime, sine) ==
  LET m == IF w.pattern = "oscillating" THEN Wall_updateOscillatingMovement(w, sine)
           ELSE Wall_updateLinearMovement(w, deltaTime)
  IN [m EXCEPT !.x = Clamp(Wall_minX(w), Wall_maxX(w), m.x),
               !.y = Clamp(Wall_minY(w), Wall_maxY(w), m.y),
               !.n = w.n + 1]

InitMovingWall ==
  /\ InitNotLate
  /\ InitObusVars
  /\ InitScoreVars
  /\ InitIballVars
  /\ InitFxVars
  /\ InitAiVars
  /\ InitLoopVars
  /\ mw \in NewWalls

\* Wall.update(deltaTime) of a moving wall; the callers pass 16 ms or nothing,
\* which updateMovement takes as 16 ms.
wallUpdate(deltaTime, sine) ==
  /\ mw.n < MaxWallUpdates
  /\ mw' = Wall_updateMovement(mw, deltaTime, sine)
  /\ UNCHANGED notMwVars

NextMovingWall == \E sine \in {-1, 0, 1} : wallUpdate(16, sine)

SpecMovingWall == InitMovingWall /\ [][NextMovingWall]_vars

\* ------------------------------------------------- moving walls: claims
\* C34: after every update the rectangle of a moving wall, from (x, y) to
\* (x + width, y + height), which is what balls collide with, lies within the
\* field.
C34_WallRectangleInField ==
  mw.n > 0 =>
    /\ 0 <= mw.x /\ mw.x + mw.width <= CANVAS_WIDTH
    /\ 0 <= mw.y /\ mw.y + mw.height <= CANVAS_HEIGHT

\* ================================================= the tick loop
MaxQueued == 3
MaxFrames == 3
MaxUpdates == 7

\* Game.gameLoop(): nothing when the game is not running or is paused; else
\* update(), render() and requestAnimationFrame(() => this.gameLoop()).
Game_gameLoop(L) ==
  IF ~L.isRunning \/ L.isPaused THEN L
  ELSE [L EXCEPT !.updates = @ + 1, !.queued = @ + 1]

\* Game.start(): isRunning = true, then gameLoop().
Game_start(L) == Game_gameLoop([L EXCEPT !.isRunning = TRUE])

\* Game.togglePause(): isPaused flips; gameLoop() when the game is resumed.
Game_togglePause(L) ==
  LET T == [L EXCEPT !.isPaused = ~L.isPaused]
  IN IF ~T.isPaused THEN Game_gameLoop(T) ELSE T

\* Game.stop(): isRunning = false.
Game_stop(L) == [L EXCEPT !.isRunning = FALSE]

\* An animation frame: the browser runs the n callbacks queued for it, each a
\* gameLoop() that queues one for the next frame when it has updated.
RECURSIVE runCallbacks(_, _)
runCallbacks(L, n) ==
  IF n = 0 THEN L
  ELSE runCallbacks(Game_gameLoop(L), n - 1)

InitLoop ==
  /\ InitNotLate
  /\ InitObusVars
  /\ InitScoreVars
  /\ InitIballVars
  /\ InitFxVars
  /\ InitAiVars
  /\ InitMwVars
  /\ InitLoopVars

inBudget(L) == L.queued <= MaxQueued /\ L.updates <= MaxUpdates

start ==
  /\ inBudget(Game_start(loop))
  /\ loop' = Game_start(loop)
  /\ UNCHANGED notLoopVars

togglePause ==
  /\ inBudget(Game_togglePause(loop))
  /\ loop' = Game_togglePause(loop)
  /\ UNCHANGED notLoopVars

stop ==
  /\ loop' = Game_stop(loop)
  /\ UNCHANGED notLoopVars

animationFrame ==
  /\ loop.frames < MaxFrames
  /\ LET L0 == [loop EXCEPT !.queued = 0]
         L1 == runCallbacks(L0, loop.queued)
     IN /\ inBudget(L1)
        /\ loop' = [L1 EXCEPT !.ran = L1.updates - loop.updates, !.frames = @ + 1]
  /\ UNCHANGED notLoopVars

NextLoop ==
  \/ start
  \/ togglePause
  \/ stop
  \/ animationFrame

SpecLoop == InitLoop /\ [][NextLoop]_vars

\* ------------------------------------------------- the tick loop: claims
\* C35: at most one loop chain is running: at most one gameLoop callback is
\* queued for the next animation frame, and an animation frame updates the
\* world at most once.
C35_OneLoopChain ==
  /\ loop.queued <= 1
  /\ loop.ran <= 1

\* ================================================= the end of timed effects
\* Time in this section is counted in sweeps: an entry's age is the number of
\* sweeps since its startTime, and the duration of an effect is FxDuration
\* sweeps.
MaxFxApply == 2
FxDuration == 2

FxTargets == {"ball1", "ball2", "left", "right"}

FxTypes == BallTypes \cup PaddleTypes

\* The balls among gameObjects: the first ball, and its clone once made.
FxBalls(F) == IF F.clone THEN {"ball1", "ball2"} ELSE {"ball1"}

\* applyTimedEffect(type, effect, ball): the effect is added to the ball or to
\* the paddle of side sd, and activeEffects gets an entry naming that target.
Fx_applyTimedEffect(F, type, b, sd) ==
  LET tg == IF type \in BallTypes THEN b ELSE sd
  IN [F EXCEPT !.eff[tg] = addEffect(@, type),
               !.reg = @ \cup {[type |-> type, target |-> tg, age |-> 0]},
               !.napply = @ + 1]

\* applyCloneBall(ball): ball.clone() copies every effect of the ball onto the
\* clone with clone.addEffect; "game:ballSpawned" puts the clone into the game.
\* activeEffects is not touched.
Fx_applyCloneBall(F) ==
  [F EXCEPT !.clone = TRUE, !.eff["ball2"] = F.eff["ball1"]]

\* removeEffect(effectId): "ball:effectRemoved" with the entry's ballId, whose
\* handler looks the ball up among the balls in play, or "paddle:effectRemoved"
\* with the entry's side; then the entry is deleted.
Fx_removeEffect(F, e) ==
  [F EXCEPT !.eff[e.target] = IF e.target \in {"left", "right"} \/ e.target \in FxBalls(F)
                                THEN removeEffect(@, e.type) ELSE @,
            !.reg = @ \ {e}]

\* cleanupExpiredEffects(): removeEffect for every entry with now - startTime >
\* duration.
RECURSIVE Fx_cleanupExpiredEffects(_)
Fx_cleanupExpiredEffects(F) ==
  LET due == {e \in F.reg : e.age > FxDuration}
  IN IF due = {} THEN F
     ELSE Fx_cleanupExpiredEffects(Fx_removeEffect(F, CHOOSE e \in due : TRUE))

\* PowerupSystem.clear(): activeEffects.clear(); balls and paddles are not
\* touched.
Fx_clear(F) == [F EXCEPT !.reg = {}]

\* The clock moves on by one sweep period.
Older(reg) == {[e EXCEPT !.age = Min(e.age + 1, FxDuration + 1)] : e \in reg}

InitFx ==
  /\ InitNotLate
  /\ InitObusVars
  /\ InitScoreVars
  /\ InitIballVars
  /\ InitAiVars
  /\ InitMwVars
  /\ InitLoopVars
  /\ InitFxVars

\* A ball in play collects a timed powerup.
fxApply(type, b, sd) ==
  /\ tfx.napply < MaxFxApply
  /\ b \in FxBalls(tfx)
  /\ tfx' = Fx_applyTimedEffect(tfx, type, b, sd)
  /\ UNCHANGED notFxVars

\* The first ball collects a clone_ball powerup.
fxClone ==
  /\ ~tfx.clone
  /\ tfx' = Fx_applyCloneBall(tfx)
  /\ UNCHANGED notFxVars

\* The clone scores and is removed from the game.
fxCloneScores ==
  /\ tfx.clone
  /\ tfx' = [tfx EXCEPT !.clone = FALSE, !.eff["ball2"] = {}]
  /\ UNCHANGED notFxVars

\* resizeCanvas(): this.powerupSystem.clear().
fxClear ==
  /\ tfx' = Fx_clear(tfx)
  /\ UNCHANGED notFxVars

\* A frame one sweep period later: PowerupSystem.update() runs
\* cleanupExpiredEffects().
fxSweep ==
  /\ tfx' = Fx_cleanupExpiredEffects([tfx EXCEPT !.reg = Older(@)])
  /\ UNCHANGED notFxVars

NextFx ==
  \/ \E type \in FxTypes, b \in {"ball1", "ball2"}, sd \in Sides : fxApply(type, b, sd)
  \/ fxClone
  \/ fxCloneScores
  \/ fxClear
  \/ fxSweep

SpecFx == InitFx /\ [][NextFx]_vars

\* The game loop runs a frame, and with it the sweep, again and again.
SpecFxFair == SpecFx /\ WF_vars(fxSweep)

\* ------------------------------------------------- the end of timed effects: claims
\* C36: every timed effect attached to a ball or paddle is eventually
\* detached from it.
C36_EveryEffectDetached ==
  \A tg \in FxTargets : \A type \in FxTypes :
    (type \in tfx.eff[tg]) ~> (type \notin tfx.eff[tg])

\* ================================================= flagged balls in the collision pass
MaxPassTicks == 3

\* What a ball can overlap at the collision step.
Interactions == {"paddle", "wall", "powerup", "portal"}

\* Ball constructor: this.collidable = true; nothing changes it afterwards.
Ball_collidable(b) == TRUE

\* CollisionSystem.detectCollisions(gameObjects): the balls are the game
\* objects of type "ball" that are collidable; each is paired with every
\* paddle, uncollected powerup, active wall and paired portal it overlaps, and
\* resolveCollisions handles every pair (bounce, collect, teleport).
CollisionSystem_detectCollisions(b, over) ==
  IF b.inSet /\ Ball_collidable(b) THEN over ELSE {}

\* A ball past a goal line is outside the field, where there is no paddle,
\* wall, powerup or portal to overlap.
OverInputs(off) == IF off THEN {{}} ELSE SUBSET Interactions

InitPass ==
  /\ InitNotLate
  /\ InitObusVars
  /\ InitScoreVars
  /\ InitAiVars
  /\ InitMwVars
  /\ InitLoopVars
  /\ InitFxVars
  /\ InitIballVars

\* One Game.update() for one ball: the ball is updated and may score (step 1),
\* a blackhole among the game objects marks a ball it consumes (step 1), the
\* PowerupSystem's updateBlackholes disables it (step 2), the collisions are
\* detected and resolved (step 4), marked objects are removed (step 5) and a
\* ball is spawned when none is left (step 7).  d is the distance to a
\* blackhole, off whether the ball has passed a goal line.
passTick(d, off, over) ==
  /\ iball.n < MaxPassTicks
  /\ LET b1 == Ball_update(iball.b, off)
         b2 == IF Blackhole_checkBallConsumption(d) THEN [b1 EXCEPT !.toRemove = TRUE] ELSE b1
         b3 == IF Blackhole_checkBallConsumption(d) THEN [b2 EXCEPT !.disabled = TRUE] ELSE b2
         b5 == removeMarkedObjects(b3)
     IN iball' = [b |-> Game_spawnIfNoBalls(b5),
                  off |-> off /\ b5.inSet,
                  did |-> CollisionSystem_detectCollisions(b3, over),
                  flagged |-> b3.disabled \/ b3.toRemove,
                  n |-> iball.n + 1]
  /\ UNCHANGED notIballVars

\* A ball past a goal line stays there; a ball on the field may be near a
\* blackhole, which is never near a goal line.
NextPass ==
  \E off \in (IF iball.off THEN {TRUE} ELSE BOOLEAN) :
    \E d \in (IF off THEN {200} ELSE {30, 200}), over \in OverInputs(off) :
      passTick(d, off, over)

SpecPass == InitPass /\ [][NextPass]_vars

\* ------------------------------------------------- flagged balls: claims
\* C37: a ball that has scored or has been consumed by a blackhole takes part
\* in no interaction from then on: no paddle or wall bounce, no powerup
\* collection, no teleport.
C37_FlaggedBallIsInert ==
  iball.flagged => iball.did = {}

\* ================================================= the scores
MaxScore == 9
GOAL_POINTS == 1
SCORE_PENALTY == 3

\* ball.lastHitBy: a side, or null for a ball no paddle has hit yet.
HitBy == {"left", "right", "null"}

\* An addScore without the lower limit.
Game_addScore_unclamped(S, side, score) ==
  [S EXCEPT !.left = IF side = "left" THEN @ + score ELSE @,
            !.right = IF side = "right" THEN @ + score ELSE @]

\* Game.addScore(side, score): the side's score changes by score (no side, no
\* change), then both scores are raised to 0 if below.
Game_addScore(S, side, score) ==
  [S EXCEPT !.left = Max(0, IF side = "left" THEN @ + score ELSE @),
            !.right = Max(0, IF side = "right" THEN @ + score ELSE @)]

\* Game.swapScores().
Game_swapScores(S) == [S EXCEPT !.left = S.right, !.right = S.left]

\* Game.reset(): both scores are 0.
Game_resetScores(S) == [S EXCEPT !.left = 0, !.right = 0]

InitScore ==
  /\ InitNotLate
  /\ InitObusVars
  /\ InitAiVars
  /\ InitMwVars
  /\ InitLoopVars
  /\ InitFxVars
  /\ InitIballVars
  /\ InitScoreVars

Logged(S, op, side) ==
  [S EXCEPT !.last = [op |-> op, side |-> side, left |-> scoreboard.left,
                      right |-> scoreboard.right]]

inRange(S) == S.left <= MaxScore /\ S.right <= MaxScore

\* "ball:score" with scorer and points: 1, handled by addScore.
goal(scorer) ==
  /\ inRange(Game_addScore(scoreboard, scorer, GOAL_POINTS))
  /\ scoreboard' = Logged(Game_addScore(scoreboard, scorer, GOAL_POINTS), "goal", scorer)
  /\ UNCHANGED notScoreVars

\* A score_bonus powerup: "game:scoreChange" with the side that last hit the
\* ball and 5 points.
scoreBonus(side) ==
  /\ inRange(Game_addScore(scoreboard, side, SCORE_BONUS))
  /\ scoreboard' = Logged(Game_addScore(scoreboard, side, SCORE_BONUS), "bonus", side)
  /\ UNCHANGED notScoreVars

\* A score_penalty powerup: "game:scoreChange" with -3 points.
scorePenalty(side) ==
  /\ scoreboard' = Logged(Game_addScore(scoreboard, side, -SCORE_PENALTY), "penalty", side)
  /\ UNCHANGED notScoreVars

\* A swap_score powerup: "game:swapScores".
swapScores ==
  /\ scoreboard' = Logged(Game_swapScores(scoreboard), "swap", "null")
  /\ UNCHANGED notScoreVars

resetScores ==
  /\ scoreboard' = Logged(Game_resetScores(scoreboard), "reset", "null")
  /\ UNCHANGED notScoreVars

NextScore ==
  \/ \E scorer \in Sides : goal(scorer)
  \/ \E side \in HitBy : scoreBonus(side)
  \/ \E side \in HitBy : scorePenalty(side)
  \/ swapScores
  \/ resetScores

SpecScore == InitScore /\ [][NextScore]_vars

\* ------------------------------------------------- the scores: claims
\* C38: both scores are non-negative at all times.
C38_ScoresNonNegative ==
  /\ scoreboard.left >= 0
  /\ scoreboard.right >= 0

\* A penalty has hit a side that had fewer points than the penalty takes,
\* after a swap had moved the scores.
C38_Witness ==
  /\ scoreboard.last.op = "penalty"
  /\ scoreboard.last.side = "left"
  /\ scoreboard.last.left \in 1 .. SCORE_PENALTY - 1
  /\ scoreboard.last.right > 0
  /\ scoreboard.left = 0

\* ================================================= once() handlers
MaxOnceListeners == 2
MaxNesting == 2
MaxOncePublishes == 2

\* The wrapper once() subscribes: unsubscribe(), then the callback.  B = [ev,
\* once, stack, calls, publishes]; the callback of listener id is counted.
EventBus_onceWrapper(B, id) ==
  [B EXCEPT !.ev = EventBus_unsubscribe(@, id), !.calls[id] = @ + 1]

\* A subscribe() callback: the callback, nothing else.
EventBus_plainListener(B, id) == [B EXCEPT !.calls[id] = @ + 1]

\* emit(eventName): return at once without an entry; else a forEach over the
\* copy [...listeners] starts.
EventBus_emit(B) ==
  IF ~B.ev.has THEN B
  ELSE [B EXCEPT !.stack = Append(@, [copy |-> B.ev.listeners, k |-> 1])]

\* The forEach loops that have gone through their copy return, innermost
\* first.
RECURSIVE returnFinished(_)
returnFinished(st) ==
  IF st = <<>> THEN st
  ELSE IF st[Len(st)].k > Len(st[Len(st)].copy)
         THEN returnFinished(SubSeq(st, 1, Len(st) - 1))
         ELSE st

InitOnce ==
  /\ InitNotLate
  /\ InitAiVars
  /\ InitMwVars
  /\ InitLoopVars
  /\ InitFxVars
  /\ InitIballVars
  /\ InitScoreVars
  /\ InitObusVars

\* subscribe(eventName, callback) or once(eventName, callback), outside a
\* delivery.
busSubscribe(isOnce) ==
  /\ obus.stack = <<>>
  /\ Len(obus.calls) < MaxOnceListeners
  /\ LET id == Len(obus.calls) + 1
     IN obus' = [obus EXCEPT !.ev = EventBus_subscribe(@, id),
                             !.once = IF isOnce THEN @ \cup {id} ELSE @,
                             !.calls = Append(@, 0)]
  /\ UNCHANGED notObusVars

\* emit(eventName) from outside a delivery.
busEmit ==
  /\ obus.stack = <<>>
  /\ obus.publishes < MaxOncePublishes
  /\ obus' = [EventBus_emit(obus) EXCEPT !.publishes = @ + 1]
  /\ UNCHANGED notObusVars

\* One iteration of the innermost forEach: the listener's function runs; its
\* callback may publish the same signal again, which starts a delivery inside
\* this one.
busCall(reemit) ==
  /\ obus.stack # <<>>
  /\ reemit => Len(obus.stack) < MaxNesting
  /\ LET top == Len(obus.stack)
         id == obus.stack[top].copy[obus.stack[top].k]
         B1 == IF id \in obus.once THEN EventBus_onceWrapper(obus, id)
               ELSE EventBus_plainListener(obus, id)
         B2 == [B1 EXCEPT !.stack[top].k = @ + 1]
         B3 == IF reemit THEN EventBus_emit(B2) ELSE B2
     IN obus' = [B3 EXCEPT !.stack = returnFinished(@)]
  /\ UNCHANGED notObusVars

NextOnce ==
  \/ \E isOnce \in BOOLEAN : busSubscribe(isOnce)
  \/ busEmit
  \/ \E reemit \in BOOLEAN : busCall(reemit)

SpecOnce == InitOnce /\ [][NextOnce]_vars

\* ------------------------------------------------- once() handlers: claims
\* C39: a handler registered with once() is invoked at most once, also when
\* the signal is published again from inside a handler during a delivery.
C39_OnceHandlerOnce ==
  \A id \in obus.once : obus.calls[id] <= 1

====
